---------------------------- MODULE Spec2Model ----------------------------
(***************************************************************************)
(* next-api-route: the method router (createRouter), the Route with its    *)
(* middleware chain (Route.handle / next) and validation pipeline          *)
(* (Route.execute), and the RouteBuilder, modelled from the latest version *)
(* of the library source.                                                  *)
(*                                                                         *)
(* Handlers, middleware, schemas and the onError / onNotAllowed options    *)
(* are caller-supplied functions: the model lets each of them take any of  *)
(* the behaviours their types allow, chosen when they are invoked.         *)
(***************************************************************************)
EXTENDS Integers, Sequences, FiniteSets, TLC

VARIABLES
    args,      \* the arguments createRouter is called with (routes, options)
    router,    \* the outcome of createRouter: the closure state of `fn`, or the throw
    rq,        \* per router call: request, response, async activations, cursor, event log
    mem        \* the builder objects and arrays allocated so far, and the calls made on them

vars == <<args, router, rq, mem>>

-----------------------------------------------------------------------------
(* Bounds *)

\* longest middleware sequence a builder accumulates
MaxMw == 2

\* the most builder and Route objects allocated in one run of the builder calls
MaxObjects == 5

-----------------------------------------------------------------------------
(* Values *)

Undefined == "undefined"

\* const allowedMethods = ["GET", "POST", "PUT", "DELETE", "PATCH", "OPTIONS", "TRACE"]
allowedMethods == <<"GET", "POST", "PUT", "DELETE", "PATCH", "OPTIONS", "TRACE">>

\* Array.prototype.includes
includes(arr, x) == \E i \in DOMAIN arr : arr[i] = x

\* the router calls in flight that the model distinguishes
ReqIds == {1, 2}

\* request methods the host hands over (req.method), one of them unsupported
ReqMethods == {"GET", "POST", "PUT", "FOO"}

\* req.body and req.query values: one each that the schemas accept, one they reject
Bodies == {"b_good", "b_bad"}
Queries == {"q_good", "q_bad"}

\* res.statusCode when the router is called: 200 (the host's default) or 0 (none set)
InitialStatus == {0, 200}

\* an error object: class, message and (ValidationError only) the issue list
ErrorObj(class, message, errors) ==
    [class |-> class, message |-> message, errors |-> errors]

NoError == ErrorObj("none", "", <<>>)

\* class ValidationError extends Error { errors; constructor({message, errors}) }
ValidationError(init) == ErrorObj("ValidationError", init.message, init.errors)

\* the faults caller code raises
HandlerFault == ErrorObj("Error", "handler fault", <<>>)
MiddlewareFault == ErrorObj("Error", "middleware fault", <<>>)
OnErrorFault == ErrorObj("Error", "onError fault", <<>>)
OnNotAllowedFault == ErrorObj("Error", "onNotAllowed fault", <<>>)

-----------------------------------------------------------------------------
(* Schemas: ZodSchemaLike.safeParseAsync *)

\* a body schema and a query schema the caller supplies; each decodes the one
\* value it accepts into a different value and rejects everything else with
\* its ordered issue list (a failed parse of the validation library always
\* carries at least one issue)
BodySchema == "S_body"
QuerySchema == "S_query"
AnySchema == "anySchema"

SchemaIssues(schema) ==
    IF schema = BodySchema THEN <<"body_issue_1", "body_issue_2">>
    ELSE <<"query_issue_1">>

SchemaAccepts(schema, data) ==
    \/ schema = BodySchema /\ data = "b_good"
    \/ schema = QuerySchema /\ data = "q_good"

Decoded(data) ==
    CASE data = "b_good" -> "b_decoded"
      [] data = "q_good" -> "q_decoded"
      [] OTHER -> data

\* a default schema that decodes what it is given
safeParseAsync_DefaultDecodes(schema, data) ==
    IF schema = AnySchema \/ SchemaAccepts(schema, data)
    THEN [success |-> TRUE, data |-> Decoded(data), errors |-> <<>>]
    ELSE [success |-> FALSE, data |-> Undefined, errors |-> SchemaIssues(schema)]

\* anySchema.safeParseAsync(data) = { success: true, data }; a supplied schema
\* returns { success: true, data: decoded } or { success: false, error }
safeParseAsync(schema, data) ==
    IF schema = AnySchema
    THEN [success |-> TRUE, data |-> data, errors |-> <<>>]
    ELSE IF SchemaAccepts(schema, data)
         THEN [success |-> TRUE, data |-> Decoded(data), errors |-> <<>>]
         ELSE [success |-> FALSE, data |-> Undefined, errors |-> SchemaIssues(schema)]

-----------------------------------------------------------------------------
(* RouteBuilder and Route construction *)

\* a ?? b
Coalesce(a, b) == IF a = Undefined THEN b ELSE a

\* new RouteBuilder({ bodySchema, querySchema, middlewares })
RouteBuilder(init) ==
    [middlewares |-> init.middlewares,
     bodySchema |-> init.bodySchema,
     querySchema |-> init.querySchema]

\* route(): new RouteBuilder() with the default argument {}
route ==
    RouteBuilder([middlewares |-> <<>>, bodySchema |-> Undefined, querySchema |-> Undefined])

\* RouteBuilder.use
use(this, middleware) ==
    RouteBuilder([middlewares |-> Append(this.middlewares, middleware),
                  bodySchema |-> this.bodySchema,
                  querySchema |-> this.querySchema])

\* RouteBuilder.body
body(this, schema) ==
    RouteBuilder([middlewares |-> this.middlewares,
                  bodySchema |-> schema,
                  querySchema |-> this.querySchema])

\* RouteBuilder.query
query(this, schema) ==
    RouteBuilder([middlewares |-> this.middlewares,
                  bodySchema |-> this.bodySchema,
                  querySchema |-> schema])

\* new Route(handler, { middlewares, bodySchema, querySchema })
Route(handler, init) ==
    [handler |-> handler,
     middlewares |-> init.middlewares,
     bodySchema |-> Coalesce(init.bodySchema, AnySchema),
     querySchema |-> Coalesce(init.querySchema, AnySchema)]

\* RouteBuilder.build
build(this, handler) ==
    Route(handler, [middlewares |-> this.middlewares,
                    bodySchema |-> this.bodySchema,
                    querySchema |-> this.querySchema])

-----------------------------------------------------------------------------
(* RouteBuilder and Route as objects: fields that hold array references *)

\* no array passed to a constructor (middlewares: undefined)
NoArray == 0

EmptyHeap == [arrays |-> <<>>, builders |-> <<>>, routes |-> <<>>]

\* middlewares ?? []: the array passed, or a fresh empty one
ArrayOr(h, ref) == IF ref = NoArray THEN [h EXCEPT !.arrays = Append(@, <<>>)] ELSE h
ArrayRef(h, ref) == IF ref = NoArray THEN Len(h.arrays) + 1 ELSE ref

\* new RouteBuilder(init): the object holds the array it was given
newRouteBuilder(h, init) ==
    [ArrayOr(h, init.middlewares) EXCEPT
        !.builders = Append(@, [middlewares |-> ArrayRef(h, init.middlewares),
                                bodySchema |-> init.bodySchema,
                                querySchema |-> init.querySchema])]

\* new Route(handler, init)
newRoute(h, handler, init) ==
    [ArrayOr(h, init.middlewares) EXCEPT
        !.routes = Append(@, [handler |-> handler,
                              middlewares |-> ArrayRef(h, init.middlewares),
                              bodySchema |-> Coalesce(init.bodySchema, AnySchema),
                              querySchema |-> Coalesce(init.querySchema, AnySchema)])]

\* route()
routeOn(h) ==
    newRouteBuilder(h, [middlewares |-> NoArray, bodySchema |-> Undefined,
                        querySchema |-> Undefined])

\* a use that pushes onto the receiver's own array
useOn_InPlace(h, b, middleware) ==
    LET this == h.builders[b]
        h2 == [h EXCEPT !.arrays[this.middlewares] = Append(@, middleware)]
    IN  newRouteBuilder(h2, [middlewares |-> this.middlewares,
                             bodySchema |-> this.bodySchema,
                             querySchema |-> this.querySchema])

\* a use that puts the middleware in front of the ones registered before
useOn_Prepend(h, b, middleware) ==
    LET this == h.builders[b]
        h2 == [h EXCEPT !.arrays = Append(@, <<middleware>> \o h.arrays[this.middlewares])]
    IN  newRouteBuilder(h2, [middlewares |-> Len(h2.arrays),
                             bodySchema |-> this.bodySchema,
                             querySchema |-> this.querySchema])

\* use: const middlewares = [...this.middlewares, middleware]; new RouteBuilder
useOn(h, b, middleware) ==
    LET this == h.builders[b]
        h2 == [h EXCEPT !.arrays = Append(@, Append(h.arrays[this.middlewares], middleware))]
    IN  newRouteBuilder(h2, [middlewares |-> Len(h2.arrays),
                             bodySchema |-> this.bodySchema,
                             querySchema |-> this.querySchema])

\* body: new RouteBuilder with this.middlewares (the same array) and the schema
bodyOn(h, b, schema) ==
    LET this == h.builders[b]
    IN  newRouteBuilder(h, [middlewares |-> this.middlewares,
                            bodySchema |-> schema,
                            querySchema |-> this.querySchema])

\* query: new RouteBuilder with this.middlewares (the same array) and the schema
queryOn(h, b, schema) ==
    LET this == h.builders[b]
    IN  newRouteBuilder(h, [middlewares |-> this.middlewares,
                            bodySchema |-> this.bodySchema,
                            querySchema |-> schema])

\* build: new Route with this.middlewares (the same array) and the schemas
buildOn(h, b, handler) ==
    LET this == h.builders[b]
    IN  newRoute(h, handler, [middlewares |-> this.middlewares,
                              bodySchema |-> this.bodySchema,
                              querySchema |-> this.querySchema])

\* what a builder object holds: its fields with the array read through
BuilderView(h, b) ==
    [middlewares |-> h.arrays[h.builders[b].middlewares],
     bodySchema |-> h.builders[b].bodySchema,
     querySchema |-> h.builders[b].querySchema]

\* what a Route object holds
RouteView(h, k) ==
    [handler |-> h.routes[k].handler,
     middlewares |-> h.arrays[h.routes[k].middlewares],
     bodySchema |-> h.routes[k].bodySchema,
     querySchema |-> h.routes[k].querySchema]

\* the middleware, schemas and handlers the builder calls are made with
UsedMiddlewares == {"mA", "mB"}
UsedBodySchemas == {BodySchema}
UsedQuerySchemas == {QuerySchema}
UsedHandlers == {"hA", "hB"}

NoCalls == [heap |-> EmptyHeap, calls |-> <<>>]

\* a call on builder `this` (0 for route()) that returned object `result`; was
\* is what the receiver held when the call was made
CallRecord(op, this, arg, result, was) ==
    [op |-> op, this |-> this, arg |-> arg, result |-> result, was |-> was]

Allocated(h) == Len(h.builders) + Len(h.routes)

\* const b = route()
BuilderRoute ==
    /\ Allocated(mem.heap) < MaxObjects
    /\ mem' = [heap |-> routeOn(mem.heap),
               calls |-> Append(mem.calls,
                                CallRecord("route", 0, "", Len(mem.heap.builders) + 1, route))]
    /\ UNCHANGED <<args, router, rq>>

\* const b2 = b.use(middleware)
BuilderUse ==
    /\ Allocated(mem.heap) < MaxObjects
    /\ \E b \in DOMAIN mem.heap.builders, middleware \in UsedMiddlewares :
         mem' = [heap |-> useOn(mem.heap, b, middleware),
                 calls |-> Append(mem.calls,
                                  CallRecord("use", b, middleware, Len(mem.heap.builders) + 1,
                                             BuilderView(mem.heap, b)))]
    /\ UNCHANGED <<args, router, rq>>

\* const b2 = b.body(schema)
BuilderBody ==
    /\ Allocated(mem.heap) < MaxObjects
    /\ \E b \in DOMAIN mem.heap.builders, schema \in UsedBodySchemas :
         mem' = [heap |-> bodyOn(mem.heap, b, schema),
                 calls |-> Append(mem.calls,
                                  CallRecord("body", b, schema, Len(mem.heap.builders) + 1,
                                             BuilderView(mem.heap, b)))]
    /\ UNCHANGED <<args, router, rq>>

\* const b2 = b.query(schema)
BuilderQuery ==
    /\ Allocated(mem.heap) < MaxObjects
    /\ \E b \in DOMAIN mem.heap.builders, schema \in UsedQuerySchemas :
         mem' = [heap |-> queryOn(mem.heap, b, schema),
                 calls |-> Append(mem.calls,
                                  CallRecord("query", b, schema, Len(mem.heap.builders) + 1,
                                             BuilderView(mem.heap, b)))]
    /\ UNCHANGED <<args, router, rq>>

\* const r = b.build(handler)
BuilderBuild ==
    /\ Allocated(mem.heap) < MaxObjects
    /\ \E b \in DOMAIN mem.heap.builders, handler \in UsedHandlers :
         mem' = [heap |-> buildOn(mem.heap, b, handler),
                 calls |-> Append(mem.calls,
                                  CallRecord("build", b, handler, Len(mem.heap.routes) + 1,
                                             BuilderView(mem.heap, b)))]
    /\ UNCHANGED <<args, router, rq>>

-----------------------------------------------------------------------------
(* Requests, responses, events *)

\* what res.json / res.send was last called with
NoBody == [via |-> "none", value |-> Undefined, message |-> Undefined, errors |-> <<>>]
JsonBody(value) == [via |-> "json", value |-> value, message |-> Undefined, errors |-> <<>>]
JsonErrorBody(message, errors) ==
    [via |-> "json", value |-> "object", message |-> message, errors |-> errors]
TextBody(text) == [via |-> "send", value |-> text, message |-> Undefined, errors |-> <<>>]

\* one entry of the per-call event log
Ev(ev, who, a, b, n, errs) == [ev |-> ev, who |-> who, a |-> a, b |-> b, n |-> n, errs |-> errs]

\* the log entry of a response write by `who`
WriteEv(who, res) ==
    [ev |-> "write", who |-> who, a |-> res.body.via, b |-> res.body.value,
     n |-> res.statusCode, errs |-> res.body.errors, payload |-> res.body]

\* res.status(n)
ResStatus(res, n) == [res EXCEPT !.statusCode = n]

\* res.json(value) / res.send(text): the payload handed to the host
ResWrite(res, payload) == [res EXCEPT !.body = payload, !.writes = @ + 1]

\* an activation record of one of the async functions
Frame(fn, pc, id) ==
    [fn |-> fn, pc |-> pc, id |-> id, kind |-> "",
     body |-> Undefined, query |-> Undefined, result |-> Undefined]

\* a chain of activations awaiting each other; ret/err carry the settlement of
\* the callee the top frame awaits; sync marks the synchronous first segment
\* of a call nobody awaits
Task(stack, sync) == [stack |-> stack, ret |-> "none", err |-> NoError, sync |-> sync]

Top(task) == task.stack[Len(task.stack)]

\* the top frame replaced
SetTop(task, frame) ==
    [task EXCEPT !.stack = [@ EXCEPT ![Len(@)] = frame], !.ret = "none", !.err = NoError]

\* a call that the top frame awaits
Call(task, caller, callee) ==
    [task EXCEPT !.stack = Append([@ EXCEPT ![Len(@)] = caller], callee),
                 !.ret = "none", !.err = NoError]

\* the top frame returns
Return(task) ==
    [task EXCEPT !.stack = SubSeq(@, 1, Len(@) - 1),
                 !.ret = "ok", !.err = NoError, !.sync = FALSE]

\* the top frame throws e
Throw(task, e) ==
    [task EXCEPT !.stack = SubSeq(@, 1, Len(@) - 1),
                 !.ret = "exc", !.err = e, !.sync = FALSE]

\* the state of a router call nobody has made yet
IdleCall ==
    [phase |-> "idle",
     req |-> [method |-> "GET", body |-> "b_good", query |-> "q_good"],
     res |-> [statusCode |-> 200, body |-> NoBody, writes |-> 0],
     route |-> build(route, Undefined),
     tasks |-> <<>>,
     index |-> 0,
     log |-> <<>>,
     outcome |-> "none",
     rejection |-> NoError]

\* a task runs when no later call is still in its synchronous first segment:
\* an un-awaited call runs up to its first suspension before its caller goes on
Runnable(q, t) ==
    /\ t \in DOMAIN q.tasks
    /\ q.tasks[t].stack # <<>>
    /\ \A u \in DOMAIN q.tasks : q.tasks[u].sync /\ q.tasks[u].stack # <<>> => u <= t

\* the log grows by the settlement of task t when its last frame has gone:
\* task 1 is the router call itself, any other is a call nobody awaits
Settle(q, t) ==
    LET task == q.tasks[t] IN
    IF task.stack # <<>> THEN q
    ELSE IF t = 1
         THEN [q EXCEPT !.outcome = IF task.ret = "exc" THEN "rejected" ELSE "resolved",
                        !.rejection = task.err]
         ELSE IF task.ret = "exc"
              THEN [q EXCEPT !.log = Append(@, Ev("unhandledRejection", task.err.class,
                                                  task.err.message, "", t, task.err.errors))]
              ELSE q

\* the call's state after task t has become `task`, with `events` logged
Step(q, t, task, events) ==
    Settle([q EXCEPT !.tasks[t] = task, !.log = @ \o events], t)

\* every activation of the call has ended
AllDone(q) == \A t \in DOMAIN q.tasks : q.tasks[t].stack = <<>>

-----------------------------------------------------------------------------
(* createRouter *)

\* typeof routes === "function" ? routes(route) : routes
RoutesMapOf(routes) == routes.map

\* Object.keys(routes): the own enumerable keys of the argument itself, which
\* for a factory callback is a function object and has none
ObjectKeys(routes) == IF routes.kind = "function" THEN {} ELSE DOMAIN routes.map

\* the supplied option ignored
OptionOr_Default(option, default) == default

\* const { onError = defaultOnError, onNotAllowed = defaultOnNotAllowed } = options ?? {}
OptionOr(option, default) == IF option = Undefined THEN default ELSE option

\* the key check with its negation lost
UnsupportedKey_Inverted(routes) ==
    \E method \in ObjectKeys(routes) : includes(allowedMethods, method)

\* the for loop over Object.keys(routes): some key is not in allowedMethods
UnsupportedKey(routes) ==
    \E method \in ObjectKeys(routes) : ~includes(allowedMethods, method)

NoRoutes == [method \in {} |-> build(route, Undefined)]

\* createRouter(routes, options): throws, or returns fn closed over routesMap,
\* onError and onNotAllowed
createRouter(routes, options) ==
    IF UnsupportedKey(routes)
    THEN [state |-> "threw", routesMap |-> NoRoutes,
          onError |-> Undefined, onNotAllowed |-> Undefined]
    ELSE [state |-> "built", routesMap |-> RoutesMapOf(routes),
          onError |-> OptionOr(options.onError, "defaultOnError"),
          onNotAllowed |-> OptionOr(options.onNotAllowed, "defaultOnNotAllowed")]

\* the module calls createRouter(routes, options)
CreateRouter ==
    /\ router.state = "unbuilt"
    /\ router' = createRouter(args.routes, args.options)
    /\ UNCHANGED <<args, rq, mem>>

-----------------------------------------------------------------------------
(* fn: the request handler createRouter returns *)

\* the host calls fn(req, res)
RouterCall(r) ==
    /\ router.state = "built"
    /\ rq[r].phase = "idle" \/ AllDone(rq[r])
    /\ \E method \in ReqMethods, b \in Bodies, qu \in Queries, status \in InitialStatus :
         rq' = [rq EXCEPT ![r] =
                  [IdleCall EXCEPT
                     !.phase = "running",
                     !.req = [method |-> method, body |-> b, query |-> qu],
                     !.res = [statusCode |-> status, body |-> NoBody, writes |-> 0],
                     !.tasks = <<Task(<<Frame("router", "lookup", "")>>, FALSE)>>,
                     !.log = <<Ev("call", "", method, "", status, <<>>)>>]]
    /\ UNCHANGED <<args, router, mem>>

\* a lookup that ignores the method: any registered route
Lookup_AnyRoute(routesMap, method) == {routesMap[m] : m \in DOMAIN routesMap}

\* a lookup that falls back to a registered route when the method has none
Lookup_Fallback(routesMap, method) ==
    IF method \in DOMAIN routesMap THEN {routesMap[method]}
    ELSE {routesMap[m] : m \in DOMAIN routesMap}

\* routesMap[method]
Lookup(routesMap, method) ==
    IF method \in DOMAIN routesMap THEN {routesMap[method]} ELSE {}

\* defaultOnNotAllowed: res.status(405).send("Method Not Allowed")
defaultOnNotAllowed(res) == ResWrite(ResStatus(res, 405), TextBody("Method Not Allowed"))

\* res.status(400).json({ message: error.message, errors: error.errors })
handleValidationError(error, res) ==
    ResWrite(ResStatus(res, 400), JsonErrorBody(error.message, error.errors))

\* a default error handler without the ValidationError branch
defaultOnError_Always500(error, res) ==
    ResWrite(ResStatus(res, 500), TextBody("Internal Server Error"))

\* defaultOnError
defaultOnError(error, res) ==
    IF error.class = "ValidationError"
    THEN handleValidationError(error, res)
    ELSE ResWrite(ResStatus(res, 500), TextBody("Internal Server Error"))

\* an onError / onNotAllowed option of the caller: it answers in its own way
customResponse(res) == ResWrite(ResStatus(res, 500), TextBody("custom response"))

\* what a caller-supplied option does when called: it responds or it throws
OptionOutcomes == {"respond", "throw"}

\* the not-allowed branch without its return: fn goes on to call handle of
\* the missing Route, and the TypeError of that call goes to onError
RouterNotAllowed_NoReturn(r) ==
    LET q == rq[r]
        task == q.tasks[1]
        e == ErrorObj("TypeError", "handler is undefined", <<>>)
    IN  /\ q.phase = "running"
        /\ Runnable(q, 1)
        /\ Top(task).fn = "router" /\ Top(task).pc = "lookup"
        /\ Lookup(router.routesMap, q.req.method) = {}
        /\ LET called == Ev("onNotAllowed", router.onNotAllowed, q.req.method, "respond", 0, <<>>)
               res2 == IF router.onNotAllowed = "defaultOnNotAllowed"
                       THEN defaultOnNotAllowed(q.res) ELSE customResponse(q.res)
               res3 == IF router.onError = "defaultOnError"
                       THEN defaultOnError(e, res2) ELSE customResponse(res2)
           IN  rq' = [rq EXCEPT ![r] =
                  Step([q EXCEPT !.res = res3], 1, Return(task),
                       <<called, WriteEv(router.onNotAllowed, res2),
                         Ev("onError", router.onError, e.class, e.message, 0, e.errors),
                         WriteEv(router.onError, res3)>>)]
        /\ UNCHANGED <<args, router, mem>>

\* if (!handler) { onNotAllowed(method, req, res); return; }
RouterNotAllowed(r) ==
    LET q == rq[r]
        task == q.tasks[1]
    IN  /\ q.phase = "running"
        /\ Runnable(q, 1)
        /\ Top(task).fn = "router" /\ Top(task).pc = "lookup"
        /\ Lookup(router.routesMap, q.req.method) = {}
        /\ \E outcome \in OptionOutcomes :
             /\ router.onNotAllowed = "defaultOnNotAllowed" => outcome = "respond"
             /\ LET called == Ev("onNotAllowed", router.onNotAllowed, q.req.method, outcome, 0, <<>>)
                    res2 == IF router.onNotAllowed = "defaultOnNotAllowed"
                            THEN defaultOnNotAllowed(q.res) ELSE customResponse(q.res)
                    written == WriteEv(router.onNotAllowed, res2)
                IN  rq' = [rq EXCEPT ![r] =
                       IF outcome = "throw"
                       THEN Step(q, 1, Throw(task, OnNotAllowedFault), <<called>>)
                       ELSE Step([q EXCEPT !.res = res2], 1, Return(task), <<called, written>>)]
        /\ UNCHANGED <<args, router, mem>>

\* try { await handler.handle(req, res) }
RouterDispatch(r) ==
    LET q == rq[r]
        task == q.tasks[1]
    IN  /\ q.phase = "running"
        /\ Runnable(q, 1)
        /\ Top(task).fn = "router" /\ Top(task).pc = "lookup"
        /\ \E handler \in Lookup(router.routesMap, q.req.method) :
             rq' = [rq EXCEPT ![r] =
                      Step([q EXCEPT !.route = handler], 1,
                           Call(task, [Top(task) EXCEPT !.pc = "awaitHandle"],
                                Frame("handle", "start", "")),
                           <<Ev("dispatch", handler.handler, q.req.method, "", 0, <<>>)>>)]
        /\ UNCHANGED <<args, router, mem>>

\* handle resolved: fn returns
RouterReturn(r) ==
    LET q == rq[r]
        task == q.tasks[1]
    IN  /\ q.phase = "running"
        /\ Runnable(q, 1)
        /\ Top(task).fn = "router" /\ Top(task).pc = "awaitHandle"
        /\ task.ret = "ok"
        /\ rq' = [rq EXCEPT ![r] = Step(q, 1, Return(task), <<>>)]
        /\ UNCHANGED <<args, router, mem>>

\* the caught error wrapped in a new one
Caught_Wrapped(e) == ErrorObj("Error", "wrapped", e.errors)

\* the error onError is called with: the caught e itself
Caught(e) == e

\* a catch that rethrows without calling onError
RouterCatch_Rethrows(r) ==
    LET q == rq[r]
        task == q.tasks[1]
    IN  /\ q.phase = "running"
        /\ Runnable(q, 1)
        /\ Top(task).fn = "router" /\ Top(task).pc = "awaitHandle"
        /\ task.ret = "exc"
        /\ rq' = [rq EXCEPT ![r] = Step(q, 1, Throw(task, task.err), <<>>)]
        /\ UNCHANGED <<args, router, mem>>

\* a catch that guards onError too: a fault of onError is caught again and
\* handed to onError a second time
RouterCatch_CatchesAgain(r) ==
    LET q == rq[r]
        task == q.tasks[1]
        e == Caught(task.err)
    IN  /\ q.phase = "running"
        /\ Runnable(q, 1)
        /\ Top(task).fn = "router" /\ Top(task).pc = "awaitHandle"
        /\ task.ret = "exc"
        /\ \E outcome \in OptionOutcomes :
             /\ router.onError = "defaultOnError" => outcome = "respond"
             /\ LET called == Ev("onError", router.onError, e.class, e.message, 0, e.errors)
                    again == Ev("onError", router.onError, OnErrorFault.class,
                                OnErrorFault.message, 0, OnErrorFault.errors)
                    res2 == IF router.onError = "defaultOnError"
                            THEN defaultOnError(e, q.res) ELSE customResponse(q.res)
                    written == WriteEv(router.onError, res2)
                IN  rq' = [rq EXCEPT ![r] =
                       IF outcome = "throw"
                       THEN Step([q EXCEPT !.res = res2], 1, Return(task),
                                 <<called, again, written>>)
                       ELSE Step([q EXCEPT !.res = res2], 1, Return(task), <<called, written>>)]
        /\ UNCHANGED <<args, router, mem>>

\* catch (e) { onError(e, req, res) }
RouterCatch(r) ==
    LET q == rq[r]
        task == q.tasks[1]
        e == Caught(task.err)
    IN  /\ q.phase = "running"
        /\ Runnable(q, 1)
        /\ Top(task).fn = "router" /\ Top(task).pc = "awaitHandle"
        /\ task.ret = "exc"
        /\ \E outcome \in OptionOutcomes :
             /\ router.onError = "defaultOnError" => outcome = "respond"
             /\ LET called == Ev("onError", router.onError, e.class, e.message, 0, e.errors)
                    res2 == IF router.onError = "defaultOnError"
                            THEN defaultOnError(e, q.res) ELSE customResponse(q.res)
                    written == WriteEv(router.onError, res2)
                IN  rq' = [rq EXCEPT ![r] =
                       IF outcome = "throw"
                       THEN Step(q, 1, Throw(task, OnErrorFault), <<called>>)
                       ELSE Step([q EXCEPT !.res = res2], 1, Return(task), <<called, written>>)]
        /\ UNCHANGED <<args, router, mem>>

-----------------------------------------------------------------------------
(* Route.handle and the next continuation *)

\* the middleware in reverse registration order
Fns_Reversed(this) ==
    Append([i \in DOMAIN this.middlewares |->
              this.middlewares[Len(this.middlewares) + 1 - i]], "execute")

\* const fns = [...this.middlewares, () => this.execute(req, res)]
Fns(this) == Append(this.middlewares, "execute")

\* a handle that starts the chain at its final link
HandleStart_AtLastLink(r) ==
    LET q == rq[r]
        task == q.tasks[1]
    IN  /\ q.phase = "running"
        /\ Runnable(q, 1)
        /\ Top(task).fn = "handle" /\ Top(task).pc = "start"
        /\ rq' = [rq EXCEPT ![r] =
                    Step([q EXCEPT !.index = Len(Fns(q.route)) - 1], 1,
                         Call(task, [Top(task) EXCEPT !.pc = "await"], Frame("next", "start", "")),
                         <<>>)]
        /\ UNCHANGED <<args, router, mem>>

\* handle: let index = 0; await next()
HandleStart(r) ==
    LET q == rq[r]
        task == q.tasks[1]
    IN  /\ q.phase = "running"
        /\ Runnable(q, 1)
        /\ Top(task).fn = "handle" /\ Top(task).pc = "start"
        /\ rq' = [rq EXCEPT ![r] =
                    Step([q EXCEPT !.index = 0], 1,
                         Call(task, [Top(task) EXCEPT !.pc = "await"], Frame("next", "start", "")),
                         <<>>)]
        /\ UNCHANGED <<args, router, mem>>

\* the activation that next starts for fns[i]: a middleware or execute
Callee(fns, i) ==
    IF fns[i] = "execute" /\ i = Len(fns)
    THEN Frame("execute", "parseBody", "")
    ELSE Frame("mw", "enter", fns[i])

\* a next whose cursor is a field shared by all calls of the router
NextInvoke_SharedCursor(r) ==
    \E t \in DOMAIN rq[r].tasks :
    LET q == rq[r]
        task == q.tasks[t]
        fns == Fns(q.route)
        shared == CHOOSE c \in ReqIds : \A d \in ReqIds : c <= d
        i == rq[shared].index + 1
    IN  /\ q.phase = "running"
        /\ Runnable(q, t)
        /\ Top(task).fn = "next" /\ Top(task).pc = "start"
        /\ rq' = [[rq EXCEPT ![r] =
                      IF i \in DOMAIN fns
                      THEN Step(q, t,
                                [Call(task, [Top(task) EXCEPT !.pc = "await"], Callee(fns, i))
                                   EXCEPT !.sync = task.sync /\ Callee(fns, i).fn # "execute"],
                                <<>>)
                      ELSE Step(q, t, Return(task), <<Ev("exhausted", "", "", "", i, <<>>)>>)]
                   EXCEPT ![shared].index = @ + 1]
        /\ UNCHANGED <<args, router, mem>>

\* a next that runs the final link again when the cursor is past the end
NextInvoke_Reruns(r) ==
    \E t \in DOMAIN rq[r].tasks :
    LET q == rq[r]
        task == q.tasks[t]
        fns == Fns(q.route)
        i == IF q.index + 1 \in DOMAIN fns THEN q.index + 1 ELSE Len(fns)
        q2 == [q EXCEPT !.index = @ + 1]
    IN  /\ q.phase = "running"
        /\ Runnable(q, t)
        /\ Top(task).fn = "next" /\ Top(task).pc = "start"
        /\ rq' = [rq EXCEPT ![r] =
                    Step(q2, t,
                         [Call(task, [Top(task) EXCEPT !.pc = "await"], Callee(fns, i))
                            EXCEPT !.sync = task.sync /\ Callee(fns, i).fn # "execute"],
                         <<>>)]
        /\ UNCHANGED <<args, router, mem>>

\* a next that starts the link and returns without awaiting it
NextInvoke_NoAwait(r) ==
    \E t \in DOMAIN rq[r].tasks :
    LET q == rq[r]
        task == q.tasks[t]
        fns == Fns(q.route)
        i == q.index + 1
        q2 == [q EXCEPT !.index = @ + 1]
    IN  /\ q.phase = "running"
        /\ Runnable(q, t)
        /\ Top(task).fn = "next" /\ Top(task).pc = "start"
        /\ rq' = [rq EXCEPT ![r] =
                    IF i \in DOMAIN fns
                    THEN Step([q2 EXCEPT !.tasks = Append(@, Task(<<Callee(fns, i)>>, FALSE))],
                              t, Return(task), <<>>)
                    ELSE Step(q2, t, Return(task), <<Ev("exhausted", "", "", "", i, <<>>)>>)]
        /\ UNCHANGED <<args, router, mem>>

\* next: const fn = fns[index++]; if (!fn) return; await fn(req, res, next)
NextInvoke(r) ==
    \E t \in DOMAIN rq[r].tasks :
    LET q == rq[r]
        task == q.tasks[t]
        fns == Fns(q.route)
        i == q.index + 1
        q2 == [q EXCEPT !.index = @ + 1]
    IN  /\ q.phase = "running"
        /\ Runnable(q, t)
        /\ Top(task).fn = "next" /\ Top(task).pc = "start"
        /\ rq' = [rq EXCEPT ![r] =
                    IF i \in DOMAIN fns
                    THEN Step(q2, t,
                              [Call(task, [Top(task) EXCEPT !.pc = "await"], Callee(fns, i))
                                 EXCEPT !.sync = task.sync /\ Callee(fns, i).fn # "execute"],
                              <<>>)
                    ELSE Step(q2, t, Return(task), <<Ev("exhausted", "", "", "", i, <<>>)>>)]
        /\ UNCHANGED <<args, router, mem>>

\* a next that goes on to the following link when the link it called returns
NextSettles_RunsOn(r) ==
    \E t \in DOMAIN rq[r].tasks :
    LET q == rq[r]
        task == q.tasks[t]
    IN  /\ q.phase = "running"
        /\ Runnable(q, t)
        /\ Top(task).fn = "next" /\ Top(task).pc = "await"
        /\ task.ret # "none"
        /\ rq' = [rq EXCEPT ![r] =
                    Step(q, t,
                         IF task.ret = "exc" THEN Throw(task, task.err)
                         ELSE IF q.index < Len(Fns(q.route))
                         THEN SetTop(task, [Top(task) EXCEPT !.pc = "start"])
                         ELSE Return(task),
                         <<>>)]
        /\ UNCHANGED <<args, router, mem>>

\* a next whose promise settles only when the link it called resolved
NextSettles_OnlyResolved(r) ==
    \E t \in DOMAIN rq[r].tasks :
    LET q == rq[r]
        task == q.tasks[t]
    IN  /\ q.phase = "running"
        /\ Runnable(q, t)
        /\ Top(task).fn = "next" /\ Top(task).pc = "await"
        /\ task.ret = "ok"
        /\ rq' = [rq EXCEPT ![r] = Step(q, t, Return(task), <<>>)]
        /\ UNCHANGED <<args, router, mem>>

\* next: `await fn(req, res, next)` settles, and so does the promise of next
NextSettles(r) ==
    \E t \in DOMAIN rq[r].tasks :
    LET q == rq[r]
        task == q.tasks[t]
    IN  /\ q.phase = "running"
        /\ Runnable(q, t)
        /\ Top(task).fn = "next" /\ Top(task).pc = "await"
        /\ task.ret # "none"
        /\ rq' = [rq EXCEPT ![r] =
                    Step(q, t, IF task.ret = "exc" THEN Throw(task, task.err) ELSE Return(task),
                         <<>>)]
        /\ UNCHANGED <<args, router, mem>>

\* a handle that answers every fault itself and resolves
HandleSettles_AnswersFaults(r) ==
    LET q == rq[r]
        task == q.tasks[1]
        res2 == defaultOnError(task.err, q.res)
    IN  /\ q.phase = "running"
        /\ Runnable(q, 1)
        /\ Top(task).fn = "handle" /\ Top(task).pc = "await"
        /\ task.ret # "none"
        /\ rq' = [rq EXCEPT ![r] =
                    IF task.ret = "exc"
                    THEN Step([q EXCEPT !.res = res2], 1, Return(task),
                              <<Ev("handleSettled", "ok", "none", "", 0, <<>>),
                                WriteEv("handle", res2)>>)
                    ELSE Step(q, 1, Return(task),
                              <<Ev("handleSettled", "ok", "none", "", 0, <<>>)>>)]
        /\ UNCHANGED <<args, router, mem>>

\* a handle that answers a ValidationError itself and resolves
HandleSettles_CatchesValidation(r) ==
    LET q == rq[r]
        task == q.tasks[1]
        settled == Ev("handleSettled", task.ret, task.err.class, task.err.message, 0,
                      task.err.errors)
        res2 == handleValidationError(task.err, q.res)
    IN  /\ q.phase = "running"
        /\ Runnable(q, 1)
        /\ Top(task).fn = "handle" /\ Top(task).pc = "await"
        /\ task.ret # "none"
        /\ rq' = [rq EXCEPT ![r] =
                    IF task.ret = "exc" /\ task.err.class = "ValidationError"
                    THEN Step([q EXCEPT !.res = res2], 1, Return(task),
                              <<settled, WriteEv("handle", res2)>>)
                    ELSE Step(q, 1,
                              IF task.ret = "exc" THEN Throw(task, task.err) ELSE Return(task),
                              <<settled>>)]
        /\ UNCHANGED <<args, router, mem>>

\* handle: `await next()` settles, and so does the promise of handle
HandleSettles(r) ==
    LET q == rq[r]
        task == q.tasks[1]
    IN  /\ q.phase = "running"
        /\ Runnable(q, 1)
        /\ Top(task).fn = "handle" /\ Top(task).pc = "await"
        /\ task.ret # "none"
        /\ rq' = [rq EXCEPT ![r] =
                    Step(q, 1, IF task.ret = "exc" THEN Throw(task, task.err) ELSE Return(task),
                         <<Ev("handleSettled", task.ret, task.err.class, task.err.message, 0,
                              task.err.errors)>>)]
        /\ UNCHANGED <<args, router, mem>>

-----------------------------------------------------------------------------
(* Middleware: (req, res, next) => void, supplied by the caller *)

\* what a middleware does with its next continuation:
\*   await    code; await next(); code
\*   skip     code; return without calling next
\*   throw    code; throw
\*   catch    code; try { await next() } catch {}; code
\*   finally  code; try { await next() } finally { code }
\*   noawait  code; next() without awaiting it; code
\*   twice    code; await next(); await next(); code
\*   throwAfter  code; await next(); code; throw
MwKinds ==
    {"await", "skip", "throw", "catch", "finally", "noawait", "twice", "throwAfter"}

\* what a middleware can do when entered: the two middleware the repository
\* shows do one thing (logger wraps await next() in try/finally, the test's
\* middleware awaits next() and goes on), any other is arbitrary caller code
MwBehaviours(id) ==
    CASE id = "logger" -> {"finally"}
      [] id = "middleware" -> {"await"}
      [] OTHER -> MwKinds

\* the middleware is entered: its code before next, and its first call of next
MwEnter(r) ==
    \E t \in DOMAIN rq[r].tasks :
    LET q == rq[r]
        task == q.tasks[t]
        top == Top(task)
    IN  /\ q.phase = "running"
        /\ Runnable(q, t)
        /\ top.fn = "mw" /\ top.pc = "enter"
        /\ \E kind \in MwBehaviours(top.id) :
             LET pre == <<Ev("mwPre", top.id, kind, "", 0, <<>>)>>
                 nextCall == Frame("next", "start", "")
             IN  rq' = [rq EXCEPT ![r] =
                   CASE kind = "skip" -> Step(q, t, Return(task), pre)
                     [] kind = "throw" -> Step(q, t, Throw(task, MiddlewareFault), pre)
                     [] kind = "noawait" ->
                          Step([q EXCEPT !.tasks = Append(@, Task(<<nextCall>>, TRUE))], t,
                               SetTop(task, [top EXCEPT !.pc = "spawned", !.kind = kind]), pre)
                     [] OTHER ->
                          Step(q, t,
                               Call(task, [top EXCEPT !.pc = "await", !.kind = kind], nextCall),
                               pre)]
        /\ UNCHANGED <<args, router, mem>>

\* a resumption in which a fault of next() passes a try/finally without its
\* finally block running
MwResume_NoCleanupOnFault(r) ==
    \E t \in DOMAIN rq[r].tasks :
    LET q == rq[r]
        task == q.tasks[t]
        top == Top(task)
        post == Ev("mwPost", top.id, top.kind, "", 0, <<>>)
        cleanup == Ev("mwCleanup", top.id, top.kind, task.ret, 0, <<>>)
        caught == Ev("mwCaught", top.id, task.err.class, task.err.message, 0, task.err.errors)
    IN  /\ q.phase = "running"
        /\ Runnable(q, t)
        /\ top.fn = "mw"
        /\ \/ top.pc = "spawned"
           \/ top.pc \in {"await", "await2"} /\ task.ret # "none"
        /\ rq' = [rq EXCEPT ![r] =
             IF top.pc = "spawned" THEN Step(q, t, Return(task), <<post>>)
             ELSE IF task.ret = "exc"
             THEN IF top.kind = "catch"
                  THEN Step(q, t, Return(task), <<caught, post>>)
                  ELSE Step(q, t, Throw(task, task.err), <<>>)
             ELSE IF top.kind = "finally"
             THEN Step(q, t, Return(task), <<cleanup>>)
             ELSE IF top.kind = "throwAfter"
             THEN Step(q, t, Throw(task, MiddlewareFault), <<post>>)
             ELSE IF top.kind = "twice" /\ top.pc = "await"
             THEN Step(q, t, Call(task, [top EXCEPT !.pc = "await2"],
                                  Frame("next", "start", "")), <<>>)
             ELSE Step(q, t, Return(task), <<post>>)]
        /\ UNCHANGED <<args, router, mem>>

\* the middleware goes on after next(): the promise it awaits has settled, or
\* it never awaited it
MwResume(r) ==
    \E t \in DOMAIN rq[r].tasks :
    LET q == rq[r]
        task == q.tasks[t]
        top == Top(task)
        post == Ev("mwPost", top.id, top.kind, "", 0, <<>>)
        cleanup == Ev("mwCleanup", top.id, top.kind, task.ret, 0, <<>>)
        caught == Ev("mwCaught", top.id, task.err.class, task.err.message, 0, task.err.errors)
    IN  /\ q.phase = "running"
        /\ Runnable(q, t)
        /\ top.fn = "mw"
        /\ \/ top.pc = "spawned"
           \/ top.pc \in {"await", "await2"} /\ task.ret # "none"
        /\ rq' = [rq EXCEPT ![r] =
             IF top.pc = "spawned" THEN Step(q, t, Return(task), <<post>>)
             ELSE IF top.kind = "finally"
             THEN Step(q, t, IF task.ret = "exc" THEN Throw(task, task.err) ELSE Return(task),
                       <<cleanup>>)
             ELSE IF task.ret = "exc"
             THEN IF top.kind = "catch"
                  THEN Step(q, t, Return(task), <<caught, post>>)
                  ELSE Step(q, t, Throw(task, task.err), <<>>)
             ELSE IF top.kind = "throwAfter"
             THEN Step(q, t, Throw(task, MiddlewareFault), <<post>>)
             ELSE IF top.kind = "twice" /\ top.pc = "await"
             THEN Step(q, t, Call(task, [top EXCEPT !.pc = "await2"],
                                  Frame("next", "start", "")), <<>>)
             ELSE Step(q, t, Return(task), <<post>>)]
        /\ UNCHANGED <<args, router, mem>>

-----------------------------------------------------------------------------
(* Route.execute: the validation pipeline *)

\* res.statusCode || 200
StatusOr200(statusCode) == IF statusCode = 0 THEN 200 ELSE statusCode

\* the handler given the request's raw body
BodyOf_Raw(req, parsedBody) == req.body

\* the handler given the request's raw query
QueryOf_Raw(req, parsedQuery) == req.query

\* a pipeline that writes whatever the handler returned
IsDefined_Always(result) == TRUE

\* a truthiness test in place of the undefined test
IsDefined_Truthy(result) == result \notin {Undefined, "null"}

\* const body: TBody = parsedBody.data
BodyOf(req, parsedBody) == parsedBody.data

\* const query: TQuery = parsedQuery.data
QueryOf(req, parsedQuery) == parsedQuery.data

\* typeof result !== "undefined"
IsDefined(result) == result # Undefined

\* a pipeline that goes on after a failed parse
ParseFailed_Never(parsed) == FALSE

\* if (!parsedBody.success), if (!parsedQuery.success)
ParseFailed(parsed) == ~parsed.success

\* a body error that has lost the issue list
BodyParseError_NoIssues(parsedBody) ==
    ValidationError([message |-> "Failed to parse body", errors |-> <<>>])

\* new ValidationError({ message: "Failed to parse body", errors: parsedBody.error.errors })
BodyParseError(parsedBody) ==
    ValidationError([message |-> "Failed to parse body", errors |-> parsedBody.errors])

\* new ValidationError({ message: "Failed to parse query", errors: parsedQuery.error.errors })
QueryParseError(parsedQuery) ==
    ValidationError([message |-> "Failed to parse query", errors |-> parsedQuery.errors])

\* const parsedBody = await this.bodySchema.safeParseAsync(req.body);
\* if (!parsedBody.success) throw new ValidationError(...)
ExecParseBody(r) ==
    \E t \in DOMAIN rq[r].tasks :
    LET q == rq[r]
        task == q.tasks[t]
        top == Top(task)
        parsedBody == safeParseAsync(q.route.bodySchema, q.req.body)
        ev == Ev("parseBody", q.route.handler, q.req.body,
                 IF parsedBody.success THEN "ok" ELSE "fail", 0, parsedBody.errors)
    IN  /\ q.phase = "running"
        /\ Runnable(q, t)
        /\ top.fn = "execute" /\ top.pc = "parseBody"
        /\ rq' = [rq EXCEPT ![r] =
             IF ParseFailed(parsedBody)
             THEN Step(q, t, Throw(task, BodyParseError(parsedBody)), <<ev>>)
             ELSE Step(q, t,
                       SetTop(task, [top EXCEPT !.body = BodyOf(q.req, parsedBody),
                                               !.pc = "parseQuery"]),
                       <<ev>>)]
        /\ UNCHANGED <<args, router, mem>>

\* const parsedQuery = await this.querySchema.safeParseAsync(req.query);
\* if (!parsedQuery.success) throw new ValidationError(...)
ExecParseQuery(r) ==
    \E t \in DOMAIN rq[r].tasks :
    LET q == rq[r]
        task == q.tasks[t]
        top == Top(task)
        parsedQuery == safeParseAsync(q.route.querySchema, q.req.query)
        ev == Ev("parseQuery", q.route.handler, q.req.query,
                 IF parsedQuery.success THEN "ok" ELSE "fail", 0, parsedQuery.errors)
    IN  /\ q.phase = "running"
        /\ Runnable(q, t)
        /\ top.fn = "execute" /\ top.pc = "parseQuery"
        /\ rq' = [rq EXCEPT ![r] =
             IF ParseFailed(parsedQuery)
             THEN Step(q, t, Throw(task, QueryParseError(parsedQuery)), <<ev>>)
             ELSE Step(q, t,
                       SetTop(task, [top EXCEPT !.query = QueryOf(q.req, parsedQuery),
                                               !.pc = "handler"]),
                       <<ev>>)]
        /\ UNCHANGED <<args, router, mem>>

\* what the caller's handler does with its params: it returns a value (having
\* set a status or not), returns undefined (having answered itself or not),
\* or throws
HandlerOutcomes ==
    { [act |-> "return", result |-> "value", status |-> 0],
      [act |-> "return", result |-> "value", status |-> 201],
      [act |-> "return", result |-> "null", status |-> 0],
      [act |-> "return", result |-> Undefined, status |-> 0],
      [act |-> "send", result |-> Undefined, status |-> 201],
      [act |-> "throw", result |-> Undefined, status |-> 0] }

\* the response after the handler's own use of res
HandlerEffect(res, outcome) ==
    CASE outcome.act = "send" ->
           ResWrite(ResStatus(res, outcome.status), TextBody("handler response"))
      [] outcome.act = "return" /\ outcome.status # 0 -> ResStatus(res, outcome.status)
      [] OTHER -> res

\* const result = await this.handler({ req, res, body, query })
ExecHandler(r) ==
    \E t \in DOMAIN rq[r].tasks :
    LET q == rq[r]
        task == q.tasks[t]
        top == Top(task)
        called == Ev("handler", q.route.handler, top.body, top.query, t, <<>>)
    IN  /\ q.phase = "running"
        /\ Runnable(q, t)
        /\ top.fn = "execute" /\ top.pc = "handler"
        /\ \E outcome \in HandlerOutcomes :
             LET q2 == [q EXCEPT !.res = HandlerEffect(q.res, outcome)]
                 did == Ev("handlerDid", q.route.handler, outcome.act, outcome.result,
                           outcome.status, <<>>)
             IN  rq' = [rq EXCEPT ![r] =
                   IF outcome.act = "throw"
                   THEN Step(q2, t, Throw(task, HandlerFault), <<called, did>>)
                   ELSE Step(q2, t,
                             SetTop(task, [top EXCEPT !.result = outcome.result, !.pc = "result"]),
                             <<called, did>>)]
        /\ UNCHANGED <<args, router, mem>>

\* if (typeof result !== "undefined") { res.status(res.statusCode || 200); res.json(result) }
ExecResult(r) ==
    \E t \in DOMAIN rq[r].tasks :
    LET q == rq[r]
        task == q.tasks[t]
        top == Top(task)
        written == ResWrite(ResStatus(q.res, StatusOr200(q.res.statusCode)), JsonBody(top.result))
    IN  /\ q.phase = "running"
        /\ Runnable(q, t)
        /\ top.fn = "execute" /\ top.pc = "result"
        /\ rq' = [rq EXCEPT ![r] =
             IF IsDefined(top.result)
             THEN Step([q EXCEPT !.res = written], t, Return(task), <<WriteEv("execute", written)>>)
             ELSE Step(q, t, Return(task), <<>>)]
        /\ UNCHANGED <<args, router, mem>>

-----------------------------------------------------------------------------
(* The routers the model builds *)

\* the middleware of the first route, in registration order
MwNames == [i \in 1..MaxMw |-> ToString(i)]

RECURSIVE UseAll(_, _)
\* builder.use(m1).use(m2)...
UseAll(builder, middlewares) ==
    IF middlewares = <<>> THEN builder
    ELSE UseAll(use(builder, Head(middlewares)), Tail(middlewares))

\* route().body(bs).query(qs), each call made only for a schema that is given
WithSchemas(bs, qs) ==
    LET b1 == IF bs = Undefined THEN route ELSE body(route, bs)
    IN  IF qs = Undefined THEN b1 ELSE query(b1, qs)

\* route()[.body(bs)][.query(qs)].use(m1)...use(mn).build("hA")
RouteA(n, bs, qs) == build(UseAll(WithSchemas(bs, qs), SubSeq(MwNames, 1, n)), "hA")

\* route().use("mB").build("hB")
RouteB == build(use(route, "mB"), "hB")

\* the route maps handed to createRouter (or returned by the factory handed to
\* it) when the subject is dispatch: up to two routes under one or two keys,
\* FOO being a key outside allowedMethods
DispatchMaps ==
    LET A == RouteA(1, BodySchema, QuerySchema)
    IN  { NoRoutes,
          "GET" :> A,
          "GET" :> A @@ "POST" :> RouteB,
          "GET" :> RouteB @@ "POST" :> RouteB,
          "FOO" :> RouteB,
          "GET" :> RouteB @@ "FOO" :> A }

OptionValues(name) == {Undefined, name}

RouterArgs(kind, map, onError, onNotAllowed) ==
    [routes |-> [kind |-> kind, map |-> map],
     options |-> [onError |-> onError, onNotAllowed |-> onNotAllowed]]

\* createRouter arguments that vary the router: a map or a factory, and for
\* one map the options
DispatchArgs ==
    { RouterArgs(kind, map, Undefined, Undefined) :
        kind \in {"object", "function"}, map \in DispatchMaps }
    \cup
    { RouterArgs("object", "GET" :> RouteA(1, BodySchema, QuerySchema), onError, onNotAllowed) :
        onError \in OptionValues("customOnError"),
        onNotAllowed \in OptionValues("customOnNotAllowed") }

\* createRouter arguments that vary the route: its schemas, and its middleware
\* up to the longest chain
ChainArgs ==
    { RouterArgs("object", "GET" :> RouteA(0, bs, qs), Undefined, Undefined) :
        bs \in {Undefined, BodySchema}, qs \in {Undefined, QuerySchema} }
    \cup
    { RouterArgs("object", "GET" :> RouteA(MaxMw, BodySchema, QuerySchema), Undefined, Undefined) }

Init ==
    /\ args \in DispatchArgs \cup ChainArgs
    /\ router = [state |-> "unbuilt", routesMap |-> NoRoutes,
                 onError |-> Undefined, onNotAllowed |-> Undefined]
    /\ rq = [r \in ReqIds |-> IdleCall]
    /\ mem = NoCalls

\* the steps of router call r
CallStep(r) ==
    \/ RouterCall(r)
    \/ RouterNotAllowed(r)
    \/ RouterDispatch(r)
    \/ RouterReturn(r)
    \/ RouterCatch(r)
    \/ HandleStart(r)
    \/ HandleSettles(r)
    \/ NextInvoke(r)
    \/ NextSettles(r)
    \/ MwEnter(r)
    \/ MwResume(r)
    \/ ExecParseBody(r)
    \/ ExecParseQuery(r)
    \/ ExecHandler(r)
    \/ ExecResult(r)

\* router calls made one after the other
Next == CreateRouter \/ CallStep(1)

Spec == Init /\ [][Next]_vars

\* the steps of router call r that the event loop runs once they are ready:
\* every continuation of fn, handle, next, a middleware or execute whose
\* awaited promise has settled
Progress(r) ==
    \/ RouterNotAllowed(r)
    \/ RouterDispatch(r)
    \/ RouterReturn(r)
    \/ RouterCatch(r)
    \/ HandleStart(r)
    \/ HandleSettles(r)
    \/ NextInvoke(r)
    \/ NextSettles(r)
    \/ MwEnter(r)
    \/ MwResume(r)
    \/ ExecParseBody(r)
    \/ ExecParseQuery(r)
    \/ ExecHandler(r)
    \/ ExecResult(r)

\* the Route two requests are in flight on: a body schema, the README's
\* logger and the test's middleware
SharedRoute == build(use(use(body(route, BodySchema), "logger"), "middleware"), "hA")

ConcurrentInit ==
    /\ args = RouterArgs("object", "GET" :> SharedRoute, Undefined, Undefined)
    /\ router = [state |-> "unbuilt", routesMap |-> NoRoutes,
                 onError |-> Undefined, onNotAllowed |-> Undefined]
    /\ rq = [r \in ReqIds |-> IdleCall]
    /\ mem = NoCalls

\* router calls in flight together, their steps interleaved
ConcurrentNext == CreateRouter \/ CallStep(1) \/ CallStep(2)

ConcurrentSpec == ConcurrentInit /\ [][ConcurrentNext]_vars

\* the routers whose one Route varies in schemas and middleware
ChainInit ==
    /\ Init
    /\ args \in ChainArgs

\* createRouter arguments that vary the options: each fallback handler left to
\* its default or supplied
OptionArgs ==
    { RouterArgs("object", "GET" :> RouteA(1, BodySchema, QuerySchema), onError, onNotAllowed) :
        onError \in OptionValues("customOnError"),
        onNotAllowed \in OptionValues("customOnNotAllowed") }

\* the routers whose subject is the fallback handlers
OptionsInit ==
    /\ Init
    /\ args \in OptionArgs

OptionsSpec == OptionsInit /\ [][Next]_vars

ChainSpec == ChainInit /\ [][Next]_vars

\* the chains of ChainSpec when every parse, middleware and handler settles
\* and every ready continuation is eventually run
FairChainSpec == ChainInit /\ [][Next]_vars /\ WF_vars(Progress(1))

\* the builder calls of a module that assembles Routes, before any router
\* is constructed from them
BuilderInit ==
    /\ Init
    /\ args = RouterArgs("object", NoRoutes, Undefined, Undefined)

BuilderNext ==
    \/ BuilderRoute
    \/ BuilderUse
    \/ BuilderBody
    \/ BuilderQuery
    \/ BuilderBuild

BuilderSpec == BuilderInit /\ [][BuilderNext]_vars

-----------------------------------------------------------------------------
(* Vocabulary of the properties *)

Range(seq) == {seq[i] : i \in DOMAIN seq}

\* the positions of the log of q that hold an event named in evs
At(q, evs) == {i \in DOMAIN q.log : q.log[i].ev \in evs}

\* the call has been made and every activation of it has ended
Finished(q) == q.phase = "running" /\ AllDone(q)

\* the method set the specification fixes
SupportedMethods == {"GET", "POST", "PUT", "DELETE", "PATCH", "OPTIONS", "TRACE"}

MiddlewareEvents == {"mwPre", "mwPost", "mwCleanup", "mwCaught"}
PipelineEvents == {"dispatch", "parseBody", "parseQuery", "handler", "handlerDid"}

-----------------------------------------------------------------------------
(* Dispatch and construction *)

\* C1: a call whose method is a key of the router's map runs handle of the
\* Route registered under that method and of no other: exactly one dispatch,
\* to that Route, and every middleware, parse and handler event of the call
\* belongs to that Route.
C1_DispatchesRegisteredRoute ==
    \A r \in ReqIds :
        LET q == rq[r] IN
        q.phase = "running" /\ q.req.method \in DOMAIN router.routesMap =>
            LET registered == router.routesMap[q.req.method] IN
            /\ \A i \in DOMAIN q.log :
                 /\ q.log[i].ev \in MiddlewareEvents =>
                      q.log[i].who \in Range(registered.middlewares)
                 /\ q.log[i].ev \in PipelineEvents => q.log[i].who = registered.handler
                 /\ q.log[i].ev # "onNotAllowed"
            /\ Len(q.log) >= 2 =>
                 /\ Cardinality(At(q, {"dispatch"})) = 1
                 /\ q.route = registered

\* C1 witness: a POST call on a router with two different routes has ended after
\* the POST route's middleware and handler ran.
C1_Witness ==
    \E r \in ReqIds :
        /\ Finished(rq[r])
        /\ rq[r].req.method = "POST"
        /\ DOMAIN router.routesMap = {"GET", "POST"}
        /\ router.routesMap["GET"] # router.routesMap["POST"]
        /\ \E i \in At(rq[r], {"handler"}) : rq[r].log[i].who = "hB"
        /\ \E i \in At(rq[r], {"mwPost"}) : rq[r].log[i].who = "mB"

\* C2: a call whose method has no registered Route invokes onNotAllowed, once,
\* with the method (the default writes status 405), and no middleware, no parse
\* and no handler of any Route.
C2_UnregisteredMethodNotAllowed ==
    \A r \in ReqIds :
        LET q == rq[r] IN
        q.phase = "running" /\ q.req.method \notin DOMAIN router.routesMap =>
            /\ \A i \in DOMAIN q.log :
                 /\ q.log[i].ev \in {"call", "onNotAllowed", "write"}
                 /\ q.log[i].ev = "write" => q.log[i].who = router.onNotAllowed
            /\ q.outcome # "none" =>
                 /\ Cardinality(At(q, {"onNotAllowed"})) = 1
                 /\ \A i \in At(q, {"onNotAllowed"}) :
                      q.log[i].who = router.onNotAllowed /\ q.log[i].a = q.req.method
                 /\ args.options.onNotAllowed = Undefined =>
                      /\ q.res.statusCode = 405
                      /\ q.res.body = TextBody("Method Not Allowed")
                      /\ q.res.writes = 1

\* C2 witness: a PUT call on a router that has routes, none for PUT, ended with 405.
C2_Witness ==
    \E r \in ReqIds :
        /\ Finished(rq[r])
        /\ rq[r].req.method = "PUT"
        /\ DOMAIN router.routesMap # {}
        /\ rq[r].res.statusCode = 405

\* C3: createRouter given a literal map with a key outside the supported
\* methods throws: no request handler exists and no call is ever made.
C3_LiteralUnsupportedKeyThrows ==
    /\ args.routes.kind = "object"
    /\ \E k \in DOMAIN args.routes.map : k \notin SupportedMethods
    /\ router.state # "unbuilt"
    => /\ router.state = "threw"
       /\ \A r \in ReqIds : rq[r].phase = "idle"

\* C3 witness: createRouter has thrown on a literal map with the key FOO.
C3_Witness ==
    /\ router.state = "threw"
    /\ args.routes.kind = "object"
    /\ "FOO" \in DOMAIN args.routes.map

\* C4: every key of the map a built router dispatches on is a supported
\* method, whether the map was given literally or returned by a factory.
C4_DispatchKeysSupported ==
    router.state = "built" => \A k \in DOMAIN router.routesMap : k \in SupportedMethods

-----------------------------------------------------------------------------
(* Validation and the handler's result *)

\* some event named ev of the log of q has b = outcome
Parsed(q, ev, outcome) == \E i \in At(q, {ev}) : q.log[i].b = outcome

\* C5 as claimed: for a Route with body schema S under the default error
\* handler, a successful body parse has H invoked with the data S returned, and
\* a failed one leaves H uninvoked and the response 400 with a non-empty errors
\* list.
C5_Original ==
    \A r \in ReqIds :
        LET q == rq[r] IN
        Finished(q) /\ q.route.bodySchema = BodySchema /\ args.options.onError = Undefined =>
            /\ SchemaAccepts(BodySchema, q.req.body) =>
                 \E j \in At(q, {"handler"}) : q.log[j].a = Decoded(q.req.body)
            /\ ~SchemaAccepts(BodySchema, q.req.body) =>
                 /\ At(q, {"handler"}) = {}
                 /\ q.res.statusCode = 400
                 /\ q.res.body.via = "json"
                 /\ Len(q.res.body.errors) >= 1

\* C5 amended: for a Route with body schema S under the default error handler,
\* whenever H is invoked the body parse has succeeded and `body` is the data S
\* returned; H is invoked once the body parse and the query parse have both
\* succeeded; after a failed body parse H is never invoked, and when the
\* ValidationError reaches the router's dispatch step the response is 400 with
\* the message and the non-empty issue list of the body schema.
C5_BodySchemaGuardsHandler ==
    \A r \in ReqIds :
        LET q == rq[r] IN
        q.phase = "running" /\ q.route.bodySchema = BodySchema
        /\ args.options.onError = Undefined =>
            /\ \A j \in At(q, {"handler"}) :
                 /\ q.log[j].a = "b_decoded"
                 /\ q.req.body = "b_good"
                 /\ \E i \in At(q, {"parseBody"}) : i < j /\ q.log[i].b = "ok"
            /\ Finished(q) /\ Parsed(q, "parseBody", "ok") /\ Parsed(q, "parseQuery", "ok") =>
                 At(q, {"handler"}) # {}
            /\ Parsed(q, "parseBody", "fail") =>
                 /\ At(q, {"handler"}) = {}
                 /\ \A k \in At(q, {"onError"}) :
                      q.log[k].a = "ValidationError" =>
                        /\ q.res.statusCode = 400
                        /\ q.res.body = JsonErrorBody("Failed to parse body",
                                                      <<"body_issue_1", "body_issue_2">>)
                        /\ Len(q.res.body.errors) >= 1

\* C5 witness: a call with a rejected body has ended with status 400 and the
\* issues of the body schema, after the route's middleware was entered.
C5_Witness ==
    \E r \in ReqIds :
        /\ Finished(rq[r])
        /\ rq[r].route.bodySchema = BodySchema
        /\ Parsed(rq[r], "parseBody", "fail")
        /\ At(rq[r], {"mwPre"}) # {}
        /\ rq[r].res.statusCode = 400
        /\ Len(rq[r].res.body.errors) = 2

\* C6 as claimed: for a Route with query schema S under the default error
\* handler, a successful query parse has H invoked with the data S returned,
\* and a failed one leaves H uninvoked and the response 400 with a non-empty
\* errors list, whatever the body schema.
C6_Original ==
    \A r \in ReqIds :
        LET q == rq[r] IN
        Finished(q) /\ q.route.querySchema = QuerySchema /\ args.options.onError = Undefined =>
            /\ SchemaAccepts(QuerySchema, q.req.query) =>
                 \E j \in At(q, {"handler"}) : q.log[j].b = Decoded(q.req.query)
            /\ ~SchemaAccepts(QuerySchema, q.req.query) =>
                 /\ At(q, {"handler"}) = {}
                 /\ q.res.statusCode = 400
                 /\ q.res.body.via = "json"
                 /\ Len(q.res.body.errors) >= 1

\* C6 amended: for a Route with query schema S under the default error handler
\* and any body schema, the query is parsed only after the body parse has
\* succeeded; whenever H is invoked `query` is the data S returned, and H is
\* invoked once the query parse has succeeded; after a failed query parse H is
\* never invoked, and when the ValidationError reaches the router's dispatch
\* step the response is 400 with the message and the non-empty issue list of
\* the query schema.
C6_QuerySchemaGuardsHandler ==
    \A r \in ReqIds :
        LET q == rq[r] IN
        q.phase = "running" /\ q.route.querySchema = QuerySchema
        /\ args.options.onError = Undefined =>
            /\ \A i \in At(q, {"parseQuery"}) :
                 \E h \in At(q, {"parseBody"}) : h < i /\ q.log[h].b = "ok"
            /\ \A j \in At(q, {"handler"}) :
                 /\ q.log[j].b = "q_decoded"
                 /\ q.req.query = "q_good"
                 /\ \E i \in At(q, {"parseQuery"}) : i < j /\ q.log[i].b = "ok"
            /\ Finished(q) /\ Parsed(q, "parseQuery", "ok") => At(q, {"handler"}) # {}
            /\ Parsed(q, "parseQuery", "fail") =>
                 /\ At(q, {"handler"}) = {}
                 /\ \A k \in At(q, {"onError"}) :
                      q.log[k].a = "ValidationError" =>
                        /\ q.res.statusCode = 400
                        /\ q.res.body = JsonErrorBody("Failed to parse query",
                                                      <<"query_issue_1">>)
                        /\ Len(q.res.body.errors) >= 1

\* C6 witness: a call with a rejected query on a Route that has no body schema
\* has ended with status 400 and the issue of the query schema.
C6_Witness ==
    \E r \in ReqIds :
        /\ Finished(rq[r])
        /\ rq[r].route.querySchema = QuerySchema
        /\ rq[r].route.bodySchema = AnySchema
        /\ Parsed(rq[r], "parseQuery", "fail")
        /\ rq[r].res.statusCode = 400
        /\ rq[r].res.body.errors = <<"query_issue_1">>

\* no activation of execute is left in the call
PipelineOver(q) ==
    \A t \in DOMAIN q.tasks :
        \A k \in DOMAIN q.tasks[t].stack : q.tasks[t].stack[k].fn # "execute"

\* the status code on the response just before event k of the log: the one
\* left by the last step before k that set it (the caller of the router, the
\* handler or a write of the core)
StatusBefore(q, k) ==
    LET setters == {j \in 1..(k - 1) :
                      \/ q.log[j].ev \in {"call", "write"}
                      \/ q.log[j].ev = "handlerDid" /\ q.log[j].n # 0}
        last == CHOOSE j \in setters : \A h \in setters : h <= j
    IN  q.log[last].n

\* the status a write of the handler's result at event k must carry
StatusPresentOr200(q, k) ==
    IF StatusBefore(q, k) # 0 THEN StatusBefore(q, k) ELSE 200

\* C7: once the handler has returned a value other than undefined, the
\* pipeline writes exactly that value as the JSON body, once, with the status
\* already on the response, or 200 when none is set.
C7_ReturnedValueWritten ==
    \A r \in ReqIds :
        LET q == rq[r] IN
        q.phase = "running" =>
            \A i \in At(q, {"handlerDid"}) :
                q.log[i].a = "return" /\ q.log[i].b # Undefined /\ PipelineOver(q) =>
                    /\ Cardinality({k \in At(q, {"write"}) : q.log[k].who = "execute"}) = 1
                    /\ \A k \in At(q, {"write"}) :
                         q.log[k].who = "execute" =>
                           /\ k > i
                           /\ q.log[k].payload = JsonBody(q.log[i].b)
                           /\ q.log[k].n = StatusPresentOr200(q, k)

\* C7 witness: a handler set status 201 and returned a value; the call ended
\* with that value as JSON body and status 201.
C7_Witness ==
    \E r \in ReqIds :
        /\ Finished(rq[r])
        /\ \E i \in At(rq[r], {"handlerDid"}) : rq[r].log[i].b = "value" /\ rq[r].log[i].n = 201
        /\ rq[r].res.body = JsonBody("value")
        /\ rq[r].res.statusCode = 201

-----------------------------------------------------------------------------
(* Errors *)

\* the handler of the call has thrown
HandlerThrew(q) == \E i \in At(q, {"handlerDid"}) : q.log[i].a = "throw"

\* onError was invoked exactly once, with the handler's error itself, and
\* nothing but onError wrote a response
OnErrorOnceWithHandlerFault(q) ==
    /\ Cardinality(At(q, {"onError"})) = 1
    /\ \A k \in At(q, {"onError"}) :
         /\ q.log[k].who = router.onError
         /\ q.log[k].a = "Error"
         /\ q.log[k].b = "handler fault"
         /\ q.log[k].errs = <<>>
    /\ \A w \in At(q, {"write"}) : q.log[w].who = router.onError

\* C8 as claimed: when the handler throws e, the router invokes onError
\* exactly once with e itself and the core writes no response by another path.
C8_Original ==
    \A r \in ReqIds :
        Finished(rq[r]) /\ HandlerThrew(rq[r]) => OnErrorOnceWithHandlerFault(rq[r])

\* C8 amended: when the handler throws e and the rejection reaches the
\* router's dispatch step (the pipeline ran in the awaited chain and no
\* middleware caught the fault), the router invokes onError exactly once with
\* e itself and the core writes no response by another path.
C8_HandlerFaultReachesOnError ==
    \A r \in ReqIds :
        LET q == rq[r] IN
        /\ Finished(q)
        /\ HandlerThrew(q)
        /\ \A j \in At(q, {"handler"}) : q.log[j].n = 1
        /\ At(q, {"mwCaught"}) = {}
        => OnErrorOnceWithHandlerFault(q)

\* C8 witness: a handler threw behind a middleware that awaited next, and the
\* call ended after the custom onError was invoked with the handler's error.
C8_Witness ==
    \E r \in ReqIds :
        /\ Finished(rq[r])
        /\ HandlerThrew(rq[r])
        /\ \E i \in At(rq[r], {"mwPre"}) : rq[r].log[i].a = "await"
        /\ \E k \in At(rq[r], {"onError"}) :
             rq[r].log[k].who = "customOnError" /\ rq[r].log[k].b = "handler fault"

\* C9: with no onError option every error that reaches the router goes to the
\* default handler, which answers a ValidationError with status 400 and the
\* JSON body { message, errors } of that error, and any other error with
\* status 500 and the fixed text.
C9_DefaultOnError ==
    \A r \in ReqIds :
        LET q == rq[r] IN
        q.phase = "running" /\ args.options.onError = Undefined =>
            \A k \in At(q, {"onError"}) :
                /\ q.log[k].who = "defaultOnError"
                /\ k + 1 \in At(q, {"write"})
                /\ q.log[k + 1].who = "defaultOnError"
                /\ IF q.log[k].a = "ValidationError"
                   THEN /\ q.log[k + 1].n = 400
                        /\ q.log[k + 1].payload = JsonErrorBody(q.log[k].b, q.log[k].errs)
                   ELSE /\ q.log[k + 1].n = 500
                        /\ q.log[k + 1].payload = TextBody("Internal Server Error")

\* C9 witness: the default handler has answered a ValidationError of the query
\* schema with 400, message and issues.
C9_Witness ==
    \E r \in ReqIds :
        /\ Finished(rq[r])
        /\ \E k \in At(rq[r], {"onError"}) :
             rq[r].log[k].who = "defaultOnError" /\ rq[r].log[k].a = "ValidationError"
        /\ rq[r].res.statusCode = 400
        /\ rq[r].res.body = JsonErrorBody("Failed to parse query", <<"query_issue_1">>)

-----------------------------------------------------------------------------
(* Middleware order *)

\* the events of the chain of q, in the order they happened: the code of the
\* middleware around next() and the steps of the validation pipeline
IsChainEvent(e) ==
    \/ e.ev \in {"mwPre", "mwPost", "parseBody", "parseQuery", "handler", "handlerDid"}
    \/ e.ev = "write" /\ e.who = "execute"

ChainLog(q) == SelectSeq(q.log, IsChainEvent)

\* the call was dispatched to a Route and every middleware entered so far
\* awaits next() once and then runs its remaining code
EachAwaitsNextOnce(q) ==
    /\ At(q, {"dispatch"}) # {}
    /\ \A i \in At(q, {"mwPre"}) : q.log[i].a = "await"

\* the chain log opens with the code before next() of the middleware, in
\* registration order, followed by the validation pipeline
OnionIn(q) ==
    LET c == ChainLog(q)
        mws == q.route.middlewares
        n == Len(mws)
    IN  /\ Len(c) > n
        /\ \A i \in 1..n : c[i].ev = "mwPre" /\ c[i].who = mws[i]
        /\ c[n + 1].ev = "parseBody"
        /\ \A k \in (n + 1)..Len(c) : c[k].ev # "mwPre"

\* the chain log closes with the code after next() of the middleware, in
\* reverse registration order, and holds no other code after next()
OnionOut(q) ==
    LET c == ChainLog(q)
        mws == q.route.middlewares
        n == Len(mws)
    IN  /\ Len(c) > 2 * n
        /\ \A i \in 1..n : c[Len(c) - n + i].ev = "mwPost"
                           /\ c[Len(c) - n + i].who = mws[n + 1 - i]
        /\ \A k \in 1..(Len(c) - n) : c[k].ev # "mwPost"

\* handle of the dispatched Route has settled with ret ("ok" or "exc")
HandleSettled(q, ret) == \E i \in At(q, {"handleSettled"}) : q.log[i].who = ret

\* C10 as claimed: when every middleware of the Route awaits next() once, one
\* request produces m1's code before next, m2's code before next, validation
\* and handler, m2's code after next, m1's code after next, for any number of
\* middleware.
C10_Original ==
    \A r \in ReqIds :
        Finished(rq[r]) /\ EachAwaitsNextOnce(rq[r]) =>
            OnionIn(rq[r]) /\ OnionOut(rq[r])

\* C10 amended: when every middleware of the Route awaits next() once, one
\* request runs the code before next() in registration order and then the
\* validation pipeline; when the pipeline completes without throwing, the
\* handler has run and the code after next() follows in reverse registration
\* order; when the pipeline throws, no code after next() runs.
C10_OnionOrder ==
    \A r \in ReqIds :
        LET q == rq[r] IN
        Finished(q) /\ EachAwaitsNextOnce(q) =>
            /\ OnionIn(q)
            /\ HandleSettled(q, "ok") \/ HandleSettled(q, "exc")
            /\ HandleSettled(q, "ok") =>
                 /\ OnionOut(q)
                 /\ At(q, {"handler"}) # {}
                 /\ \A h \in At(q, {"handlerDid"}) : q.log[h].a # "throw"
            /\ HandleSettled(q, "exc") =>
                 /\ At(q, {"mwPost"}) = {}
                 /\ \/ Parsed(q, "parseBody", "fail")
                    \/ Parsed(q, "parseQuery", "fail")
                    \/ HandlerThrew(q)

\* C10 witness: a Route with at least two middleware, each awaiting next()
\* once, has served a request whose handler ran, and the last event of the
\* chain is the first middleware's code after next().
C10_Witness ==
    \E r \in ReqIds :
        LET q == rq[r] IN
        /\ Finished(q)
        /\ EachAwaitsNextOnce(q)
        /\ Len(q.route.middlewares) >= 2
        /\ HandleSettled(q, "ok")
        /\ At(q, {"handler"}) # {}
        /\ ChainLog(q)[Len(ChainLog(q))].ev = "mwPost"
        /\ ChainLog(q)[Len(ChainLog(q))].who = q.route.middlewares[1]

\* the place of middleware id in the chain of the Route of q
MwPos(q, id) == CHOOSE i \in DOMAIN q.route.middlewares : q.route.middlewares[i] = id

\* the behaviours of a middleware that never calls next()
NeverCallsNext == {"skip", "throw"}

\* nothing downstream of the middleware entered at event k of the log has
\* run: no later middleware, no schema parse, no handler
NothingDownstream(q, k) ==
    /\ At(q, {"parseBody", "parseQuery", "handler", "handlerDid"}) = {}
    /\ \A j \in At(q, {"mwPre"}) : MwPos(q, q.log[j].who) <= MwPos(q, q.log[k].who)

\* C11 as claimed: when a middleware of the Route never calls next(), no later
\* middleware, no schema parse and no handler run for that request, whatever
\* the other middleware do.
C11_Original ==
    \A r \in ReqIds :
        LET q == rq[r] IN
        \A k \in At(q, {"mwPre"}) :
            q.log[k].a \in NeverCallsNext => NothingDownstream(q, k)

\* C11 amended: when a middleware of the Route never calls next() and no
\* middleware registered before it calls next() more than once, no later
\* middleware, no schema parse and no handler run for that request.
C11_SkipShortCircuits ==
    \A r \in ReqIds :
        LET q == rq[r] IN
        \A k \in At(q, {"mwPre"}) :
            /\ q.log[k].a \in NeverCallsNext
            /\ \A j \in At(q, {"mwPre"}) : j < k => q.log[j].a # "twice"
            => NothingDownstream(q, k)

\* C11 witness: the second middleware of a chain returned without calling
\* next() and the call has ended with neither parse nor handler run.
C11_Witness ==
    \E r \in ReqIds :
        LET q == rq[r] IN
        /\ Finished(q)
        /\ \E k \in At(q, {"mwPre"}) :
             /\ q.log[k].a = "skip"
             /\ MwPos(q, q.log[k].who) = 2
             /\ NothingDownstream(q, k)
        /\ q.res.writes = 0

-----------------------------------------------------------------------------
(* The builder *)

\* the calls made so far with operation op
CallsOf(ops) == {c \in DOMAIN mem.calls : mem.calls[c].op \in ops}

\* C12: body, query, use and build never change the builder they are called
\* on: after any sequence of calls every receiver still holds the body schema,
\* query schema and middleware sequence it held when called, every builder a
\* call returned still holds what the call gave it, and every Route built from
\* a builder holds exactly that builder's middleware and schemas, whatever was
\* called on the builder afterwards.
C12_BuilderCallsLeaveReceiver ==
    \A c \in CallsOf({"use", "body", "query", "build"}) :
        LET e == mem.calls[c]
            h == mem.heap
        IN  /\ BuilderView(h, e.this) = e.was
            /\ e.op = "use" => BuilderView(h, e.result) = use(e.was, e.arg)
            /\ e.op = "body" => BuilderView(h, e.result) = body(e.was, e.arg)
            /\ e.op = "query" => BuilderView(h, e.result) = query(e.was, e.arg)
            /\ e.op = "build" =>
                 /\ RouteView(h, e.result) = build(e.was, e.arg)
                 /\ RouteView(h, e.result).middlewares = BuilderView(h, e.this).middlewares

\* C12 witness: two Routes were built from one base builder that has a
\* middleware, and use was called on the base after the first build.
C12_Witness ==
    \E c1, c2, c3 \in DOMAIN mem.calls :
        /\ c1 < c2 /\ c2 < c3
        /\ mem.calls[c1].op = "build" /\ mem.calls[c3].op = "build"
        /\ mem.calls[c2].op = "use"
        /\ mem.calls[c1].this = mem.calls[c2].this
        /\ mem.calls[c1].this = mem.calls[c3].this
        /\ Len(mem.calls[c1].was.middlewares) = 1
        /\ RouteView(mem.heap, mem.calls[c1].result).middlewares
             = RouteView(mem.heap, mem.calls[c3].result).middlewares

-----------------------------------------------------------------------------
(* Factory and options *)

\* the literal map a factory returns when given route, as a routes argument
LiteralOf(routes) == [kind |-> "object", map |-> routes.map]

\* C13: a router built from a factory callback is the router built from the
\* literal map the factory returns: same construction outcome, and the same
\* dispatch map and fallback handlers closed over by fn, hence the same Route
\* dispatched and the same responses for every request.
C13_FactoryEqualsLiteral ==
    router.state # "unbuilt" /\ args.routes.kind = "function" =>
        router = createRouter(LiteralOf(args.routes), args.options)

\* C14: when an onNotAllowed option is supplied, a request with an
\* unregistered method invokes it exactly once, with the request's method and
\* with the response of that request, and the default 405 response is not
\* written; nothing else of the core runs or writes.
C14_CustomOnNotAllowed ==
    \A r \in ReqIds :
        LET q == rq[r] IN
        /\ Finished(q)
        /\ args.options.onNotAllowed = "customOnNotAllowed"
        /\ q.req.method \notin DOMAIN router.routesMap
        => /\ Cardinality(At(q, {"onNotAllowed"})) = 1
           /\ \A k \in At(q, {"onNotAllowed"}) :
                /\ q.log[k].who = "customOnNotAllowed"
                /\ q.log[k].a = q.req.method
                /\ q.log[k].b = "respond" =>
                     /\ k + 1 \in At(q, {"write"})
                     /\ q.log[k + 1].who = "customOnNotAllowed"
                     /\ q.res.body = q.log[k + 1].payload
           /\ \A w \in At(q, {"write"}) :
                /\ q.log[w].who = "customOnNotAllowed"
                /\ q.log[w].n # 405
                /\ q.log[w].payload # TextBody("Method Not Allowed")
           /\ At(q, {"dispatch", "onError"} \cup MiddlewareEvents \cup PipelineEvents) = {}

\* C14 witness: a router with a custom onNotAllowed has answered a request
\* whose method has no Route with the custom response.
C14_Witness ==
    \E r \in ReqIds :
        /\ Finished(rq[r])
        /\ rq[r].req.method \notin DOMAIN router.routesMap
        /\ \E k \in At(rq[r], {"onNotAllowed"}) : rq[r].log[k].who = "customOnNotAllowed"
        /\ rq[r].res.body = TextBody("custom response")

\* the ValidationError a failed parse event of the log stands for
ParseFailure(e) ==
    ValidationError([message |-> IF e.ev = "parseBody" THEN "Failed to parse body"
                                 ELSE "Failed to parse query",
                     errors |-> e.errs])

-----------------------------------------------------------------------------
(* The validation pipeline *)

\* the events named ev of the log of q that lie before position k
Before(q, k, ev) == {i \in At(q, {ev}) : i < k}

\* the schema accepts the data, or is the default one
Passes(schema, data) == schema = AnySchema \/ SchemaAccepts(schema, data)

\* C16: within one run of the validation pipeline the steps happen in the
\* order parse body, parse query, invoke handler, write result; the query is
\* not parsed after a failed body parse, the handler is invoked only after both
\* parses succeeded, and the handler never receives body or query data that its
\* schema rejected.
C16_PipelineOrder ==
    \A r \in ReqIds :
        LET q == rq[r] IN
        q.phase = "running" =>
            /\ \A i \in At(q, {"parseQuery"}) :
                 /\ \E h \in Before(q, i, "parseBody") : q.log[h].b = "ok"
                 /\ \A h \in At(q, {"parseBody"}) : h < i /\ q.log[h].b = "ok"
            /\ \A j \in At(q, {"handler"}) :
                 /\ \E i \in Before(q, j, "parseQuery") : q.log[i].b = "ok"
                 /\ \A i \in At(q, {"parseBody", "parseQuery"}) : i < j /\ q.log[i].b = "ok"
                 /\ Passes(q.route.bodySchema, q.req.body)
                 /\ Passes(q.route.querySchema, q.req.query)
                 /\ q.log[j].a = safeParseAsync(q.route.bodySchema, q.req.body).data
                 /\ q.log[j].b = safeParseAsync(q.route.querySchema, q.req.query).data
            /\ \A d \in At(q, {"handlerDid"}) : d - 1 \in At(q, {"handler"})
            /\ \A w \in At(q, {"write"}) :
                 q.log[w].who = "execute" => Before(q, w, "handlerDid") # {}
            /\ (\E h \in At(q, {"parseBody"}) : q.log[h].b = "fail") =>
                 At(q, {"parseQuery", "handler"}) = {}
            /\ (\E i \in At(q, {"parseQuery"}) : q.log[i].b = "fail") =>
                 At(q, {"handler"}) = {}

\* C16 witness: a pipeline has run all four steps in order on a Route with both
\* schemas: body parsed, query parsed, handler invoked, result written.
C16_Witness ==
    \E r \in ReqIds :
        LET q == rq[r] IN
        /\ q.phase = "running"
        /\ q.route.bodySchema = BodySchema /\ q.route.querySchema = QuerySchema
        /\ \E h \in At(q, {"parseBody"}), i \in At(q, {"parseQuery"}),
              j \in At(q, {"handler"}), w \in At(q, {"write"}) :
             h < i /\ i < j /\ j < w /\ q.log[w].who = "execute"

\* the errors the log of q has seen travel: the ones handle rejected with, the
\* ones onError or a catching middleware received, the ones nobody awaited
ErrorsSeen(q) ==
    {ErrorObj(q.log[k].a, q.log[k].b, q.log[k].errs) :
        k \in At(q, {"handleSettled", "onError", "mwCaught"})}
    \cup {ErrorObj(q.log[k].who, q.log[k].a, q.log[k].errs) : k \in At(q, {"unhandledRejection"})}
    \cup {q.tasks[t].err : t \in DOMAIN q.tasks}

\* C17: a failed body parse raises a ValidationError with the message "Failed
\* to parse body" and a failed query parse one with "Failed to parse query",
\* each with the issue list of its schema unchanged and in order; when body and
\* query are both invalid only the body error is raised.
C17_ValidationErrorOfFailedParse ==
    \A r \in ReqIds :
        LET q == rq[r]
            last == q.log[Len(q.log)]
        IN
        q.phase = "running" =>
            /\ last.ev = "parseBody" /\ last.b = "fail" =>
                 /\ last.errs = SchemaIssues(q.route.bodySchema)
                 /\ \E t \in DOMAIN q.tasks :
                      /\ q.tasks[t].ret = "exc"
                      /\ q.tasks[t].err = ErrorObj("ValidationError", "Failed to parse body",
                                                   SchemaIssues(q.route.bodySchema))
            /\ last.ev = "parseQuery" /\ last.b = "fail" =>
                 /\ last.errs = SchemaIssues(q.route.querySchema)
                 /\ \E t \in DOMAIN q.tasks :
                      /\ q.tasks[t].ret = "exc"
                      /\ q.tasks[t].err = ErrorObj("ValidationError", "Failed to parse query",
                                                   SchemaIssues(q.route.querySchema))
            /\ \A e \in ErrorsSeen(q) :
                 e.class = "ValidationError" =>
                   \/ /\ e = ErrorObj("ValidationError", "Failed to parse body",
                                      <<"body_issue_1", "body_issue_2">>)
                      /\ Parsed(q, "parseBody", "fail")
                   \/ /\ e = ErrorObj("ValidationError", "Failed to parse query",
                                      <<"query_issue_1">>)
                      /\ Parsed(q, "parseQuery", "fail")
            /\ ~Passes(q.route.bodySchema, q.req.body)
               /\ ~Passes(q.route.querySchema, q.req.query) =>
                 /\ At(q, {"parseQuery"}) = {}
                 /\ \A e \in ErrorsSeen(q) : e.message # "Failed to parse query"

\* C17 witness: a request with an invalid body and an invalid query has ended
\* with the body's ValidationError, and its two issues in order, handed to
\* onError.
C17_Witness ==
    \E r \in ReqIds :
        LET q == rq[r] IN
        /\ Finished(q)
        /\ q.req.body = "b_bad" /\ q.req.query = "q_bad"
        /\ q.route.querySchema = QuerySchema
        /\ \E k \in At(q, {"onError"}) :
             /\ q.log[k].b = "Failed to parse body"
             /\ q.log[k].errs = <<"body_issue_1", "body_issue_2">>

\* the body on the response just before event k of the log: the one the last
\* write before k left, or none
BodyBefore(q, k) ==
    LET writes == {j \in At(q, {"write"}) : j < k}
    IN  IF writes = {} THEN NoBody
        ELSE q.log[CHOOSE j \in writes : \A h \in writes : h <= j].payload

\* C18: when the handler returns undefined, the pipeline performs no write:
\* execute writes nothing for that request, and its run leaves the response
\* with the status and the body the handler left.
C18_UndefinedResultNoWrite ==
    \A r \in ReqIds :
        LET q == rq[r] IN
        q.phase = "running" =>
            \A d \in At(q, {"handlerDid"}) :
                q.log[d].a # "throw" /\ q.log[d].b = Undefined =>
                    /\ \A w \in At(q, {"write"}) : q.log[w].who # "execute"
                    /\ PipelineOver(q) /\ (\A w \in At(q, {"write"}) : w < d) =>
                         /\ q.res.statusCode =
                              IF q.log[d].n # 0 THEN q.log[d].n ELSE StatusBefore(q, d)
                         /\ q.res.body =
                              IF q.log[d].a = "send" THEN TextBody("handler response")
                              ELSE BodyBefore(q, d)
                         /\ q.res.writes =
                              Cardinality(At(q, {"write"}))
                              + (IF q.log[d].a = "send" THEN 1 ELSE 0)

\* C18 witness: a handler answered with its own status and body and returned
\* undefined; the call has ended with exactly that response.
C18_Witness ==
    \E r \in ReqIds :
        LET q == rq[r] IN
        /\ Finished(q)
        /\ \E d \in At(q, {"handlerDid"}) : q.log[d].a = "send" /\ q.log[d].b = Undefined
        /\ q.res.statusCode = 201
        /\ q.res.body = TextBody("handler response")
        /\ q.res.writes = 1

\* C19: a Route built without body(...) has the default schema for the body,
\* and likewise for the query: every parse of that field succeeds, the handler
\* receives request.body (resp. request.query) unchanged, and no
\* ValidationError is raised for that field.
C19_DefaultSchemaPassesThrough ==
    /\ \A b \in {route, use(route, "1"), query(route, QuerySchema)} :
         build(b, "hA").bodySchema = AnySchema
    /\ \A b \in {route, use(route, "1"), body(route, BodySchema)} :
         build(b, "hA").querySchema = AnySchema
    /\ \A r \in ReqIds :
         LET q == rq[r] IN
         q.phase = "running" =>
            /\ q.route.bodySchema = AnySchema =>
                 /\ \A p \in At(q, {"parseBody"}) : q.log[p].b = "ok"
                 /\ \A j \in At(q, {"handler"}) : q.log[j].a = q.req.body
                 /\ \A e \in ErrorsSeen(q) : e.message # "Failed to parse body"
            /\ q.route.querySchema = AnySchema =>
                 /\ \A p \in At(q, {"parseQuery"}) : q.log[p].b = "ok"
                 /\ \A j \in At(q, {"handler"}) : q.log[j].b = q.req.query
                 /\ \A e \in ErrorsSeen(q) : e.message # "Failed to parse query"

\* C19 witness: the handler of a Route with a query schema and no body schema
\* has received, unchanged, a body that the body schema of other Routes
\* rejects.
C19_Witness ==
    \E r \in ReqIds :
        LET q == rq[r] IN
        /\ Finished(q)
        /\ q.route.bodySchema = AnySchema /\ q.route.querySchema = QuerySchema
        /\ q.req.body = "b_bad"
        /\ \E j \in At(q, {"handler"}) : q.log[j].a = "b_bad" /\ q.log[j].b = "q_decoded"

-----------------------------------------------------------------------------
(* Faults *)

\* the positions of the log of q at which a middleware, the validation pipeline
\* or the handler raised a fault
FaultsRaised(q) ==
    {k \in DOMAIN q.log :
        \/ q.log[k].ev \in {"parseBody", "parseQuery"} /\ q.log[k].b = "fail"
        \/ q.log[k].ev = "handlerDid" /\ q.log[k].a = "throw"
        \/ q.log[k].ev = "mwPre" /\ q.log[k].a = "throw"
        \/ q.log[k].ev = "mwPost" /\ q.log[k].a = "throwAfter"}

\* the fault raised at position k
FaultAt(q, k) ==
    IF q.log[k].ev \in {"parseBody", "parseQuery"} THEN ParseFailure(q.log[k])
    ELSE IF q.log[k].ev = "handlerDid" THEN HandlerFault
    ELSE MiddlewareFault

\* the error an onError, mwCaught or unhandledRejection event of the log holds
ErrorOf(e) ==
    IF e.ev = "unhandledRejection" THEN ErrorObj(e.who, e.a, e.errs)
    ELSE ErrorObj(e.a, e.b, e.errs)

\* the fault raised at position f was later received by an event named in evs
Received(q, f, evs) ==
    \E k \in At(q, evs) : k > f /\ ErrorOf(q.log[k]) = FaultAt(q, f)

-----------------------------------------------------------------------------
(* The next continuation *)

\* the activations of the call that are still running
LiveFrames(q) == UNION {Range(q.tasks[t].stack) : t \in DOMAIN q.tasks}

\* event e of the log of q belongs to a link after the middleware at place pos
\* (0: any link): a later middleware or the final link
IsDownstream(q, e, pos) ==
    \/ e.ev \in {"parseBody", "parseQuery", "handler", "handlerDid"}
    \/ e.ev = "write" /\ e.who = "execute"
    \/ e.ev \in MiddlewareEvents /\ MwPos(q, e.who) > pos

\* at position p of the log everything after place pos had completed: no event
\* of a later link follows p and no activation of a later link is running
DownstreamDone(q, pos, p) ==
    /\ \A k \in DOMAIN q.log : IsDownstream(q, q.log[k], pos) => k < p
    /\ \A f \in LiveFrames(q) :
         /\ f.fn # "execute"
         /\ f.fn = "mw" => MwPos(q, f.id) <= pos

\* the promise of every next() that has resolved, to a middleware that awaited
\* it or to handle, resolved after the remainder of the chain
NextResolvesAfterRemainder(q) ==
    /\ \A p \in At(q, {"mwPost"}) :
         q.log[p].a # "noawait" => DownstreamDone(q, MwPos(q, q.log[p].who), p)
    /\ \A h \in At(q, {"handleSettled"}) :
         q.log[h].who = "ok" => DownstreamDone(q, 0, h)

\* a next() called with the chain exhausted started no link
ExhaustedReturnsAtOnce(q) ==
    \A x \in At(q, {"exhausted"}) : q.log[x].n > Len(Fns(q.route))

\* C21 as claimed: the promise returned by next() resolves only after the
\* whole remainder of the chain has completed, or at once when the chain is
\* exhausted; hence Route.handle resolves only after the handler's result has
\* been written.
C21_Original ==
    \A r \in ReqIds :
        rq[r].phase = "running" =>
            NextResolvesAfterRemainder(rq[r]) /\ ExhaustedReturnsAtOnce(rq[r])

\* C21 amended: when every middleware awaits the next() it calls and calls it
\* once, the promise returned by next() resolves only after the whole
\* remainder of the chain has completed, and Route.handle resolves only after
\* the handler's result has been written; a next() called with the chain
\* exhausted returns at once; next() awaits only the link it invoked, so
\* behind a middleware that does not await its next(), or that returns without
\* calling next while an earlier one calls next() again, the remainder may
\* still be running or not have started.
C21_NextResolvesAfterAwaitedRemainder ==
    \A r \in ReqIds :
        LET q == rq[r] IN
        q.phase = "running" =>
            /\ ExhaustedReturnsAtOnce(q)
            /\ (\A j \in At(q, {"mwPre"}) : q.log[j].a \notin {"noawait", "twice"}) =>
                 NextResolvesAfterRemainder(q)

\* C21 witness: behind two middleware that each awaited next() once, the
\* handler's result was written, then the next() of the second middleware
\* resolved, then the next() of the first, then handle resolved.
C21_Witness ==
    \E r \in ReqIds :
        LET q == rq[r] IN
        /\ Finished(q)
        /\ Len(q.route.middlewares) >= 2
        /\ \A j \in At(q, {"mwPre"}) : q.log[j].a = "await"
        /\ \E w \in At(q, {"write"}), p2, p1 \in At(q, {"mwPost"}),
              h \in At(q, {"handleSettled"}) :
             /\ q.log[w].who = "execute"
             /\ q.log[h].who = "ok"
             /\ q.log[p2].who = q.route.middlewares[2]
             /\ q.log[p1].who = q.route.middlewares[1]
             /\ w < p2 /\ p2 < p1 /\ p1 < h

\* a middleware of the call has called next() a second time: its first
\* next() resolved and it went on to its code after the second
CalledNextTwice(q) == \E p \in At(q, {"mwPost"}) : q.log[p].a = "twice"

\* C22 as claimed: when a middleware invokes next more than once within one
\* request, the downstream chain, handler included, is run again, so the
\* handler executes more than once for that request.
C22_Original ==
    \A r \in ReqIds :
        LET q == rq[r] IN
        Finished(q) /\ CalledNextTwice(q) /\ At(q, {"handler"}) # {} =>
            Cardinality(At(q, {"handler"})) >= 2

\* C22 amended: when a middleware invokes next more than once within one
\* request, each further call runs the link at the shared cursor, the first
\* link not started yet, or nothing when the chain is exhausted; no link is
\* run again: every middleware is entered at most once and the schemas are
\* parsed and the handler executed at most once per request.
C22_NoLinkRunsTwice ==
    \A r \in ReqIds :
        LET q == rq[r] IN
        q.phase = "running" =>
            /\ Cardinality(At(q, {"handler"})) <= 1
            /\ Cardinality(At(q, {"handlerDid"})) <= 1
            /\ Cardinality(At(q, {"parseBody"})) <= 1
            /\ Cardinality(At(q, {"parseQuery"})) <= 1
            /\ \A i, j \in At(q, {"mwPre"}) : q.log[i].who = q.log[j].who => i = j
            /\ q.index >= Cardinality(At(q, {"mwPre", "parseBody", "exhausted"}))
            /\ Finished(q) /\ (\A j \in At(q, {"mwPre"}) : q.log[j].a \in {"await", "twice"})
               /\ CalledNextTwice(q) =>
                 /\ At(q, {"exhausted"}) # {}
                 /\ Cardinality(At(q, {"mwPre"})) = Len(q.route.middlewares)

\* C22 witness: a middleware called next() twice and the call ended with the
\* handler executed once and the second next() finding the chain exhausted.
C22_Witness ==
    \E r \in ReqIds :
        LET q == rq[r] IN
        /\ Finished(q)
        /\ CalledNextTwice(q)
        /\ Cardinality(At(q, {"handler"})) = 1
        /\ At(q, {"exhausted"}) # {}

-----------------------------------------------------------------------------
(* Requests in flight together *)

\* the links a call has entered and left, in order: which code ran, and whose
LinkEvents(q) ==
    LET IsLinkEvent(e) == IsChainEvent(e) \/ e.ev = "mwCleanup"
        c == SelectSeq(q.log, IsLinkEvent)
    IN  [i \in DOMAIN c |-> <<c[i].ev, c[i].who>>]

\* the links a call on SharedRoute enters and leaves when it runs alone, given
\* its request and what its handler did (position d of its log)
AloneOnSharedRoute(q) ==
    LET in == <<<<"mwPre", "logger">>, <<"mwPre", "middleware">>, <<"parseBody", "hA">>>>
        post == <<<<"mwPost", "middleware">>>>
        cleanup == <<<<"mwCleanup", "logger">>>>
        called == <<<<"parseQuery", "hA">>, <<"handler", "hA">>, <<"handlerDid", "hA">>>>
        d == CHOOSE k \in At(q, {"handlerDid"}) : TRUE
    IN  IF q.req.body # "b_good" THEN in \o cleanup
        ELSE IF q.log[d].a = "throw" THEN in \o called \o cleanup
        ELSE IF q.log[d].b # Undefined
             THEN in \o called \o <<<<"write", "execute">>>> \o post \o cleanup
             ELSE in \o called \o post \o cleanup

\* s is an initial part of t
IsPrefix(s, t) == Len(s) <= Len(t) /\ SubSeq(t, 1, Len(s)) = s

\* C23: requests in flight on the same Route share no dispatch state: under
\* every interleaving each call enters the middleware and the final link in
\* the order, and as many times, as when it runs alone, with its own cursor,
\* and the Route's handler, schemas and middleware sequence stay as built.
C23_CallsShareNoDispatchState ==
    /\ router.state = "built" => router.routesMap = "GET" :> SharedRoute
    /\ \A r \in ReqIds :
         LET q == rq[r] IN
         q.phase = "running" /\ At(q, {"dispatch"}) # {} =>
            /\ q.route = SharedRoute
            /\ q.index <= Len(Fns(q.route))
            /\ q.index >= Cardinality(At(q, {"mwPre", "parseBody"}))
            /\ At(q, {"exhausted"}) = {}
            /\ At(q, {"handlerDid"}) = {} =>
                 IsPrefix(LinkEvents(q),
                          <<<<"mwPre", "logger">>, <<"mwPre", "middleware">>,
                            <<"parseBody", "hA">>, <<"parseQuery", "hA">>,
                            <<"mwCleanup", "logger">>>>)
                 \/ IsPrefix(LinkEvents(q),
                             <<<<"mwPre", "logger">>, <<"mwPre", "middleware">>,
                               <<"parseBody", "hA">>, <<"mwCleanup", "logger">>>>)
            /\ At(q, {"handlerDid"}) # {} => IsPrefix(LinkEvents(q), AloneOnSharedRoute(q))
            /\ Finished(q) =>
                 /\ LinkEvents(q) = AloneOnSharedRoute(q)
                 /\ q.index = Len(Fns(q.route))

\* C23 witness: one call is about to run its handler, its cursor at the end of
\* the chain, while the other call on the same Route has entered only the
\* first middleware.
C23_Witness ==
    /\ \E f \in LiveFrames(rq[1]) : f.fn = "execute" /\ f.pc = "handler"
    /\ rq[1].index = 3
    /\ rq[2].phase = "running"
    /\ rq[2].index = 1
    /\ LinkEvents(rq[2]) = <<<<"mwPre", "logger">>>>
    /\ rq[1].req.body = "b_good"

-----------------------------------------------------------------------------
(* Registration order *)

\* the call that returned builder b
MadeBy(b) == CHOOSE c \in CallsOf({"route", "use", "body", "query"}) : mem.calls[c].result = b

\* the middleware given to use along the calls that led to builder b, in the
\* order the calls were made
RECURSIVE Registered(_)
Registered(b) ==
    LET e == mem.calls[MadeBy(b)]
    IN  CASE e.op = "route" -> <<>>
          [] e.op = "use" -> Append(Registered(e.this), e.arg)
          [] OTHER -> Registered(e.this)

\* C24: use(m) appends: the builder it returns holds the middleware registered
\* before in their order followed by m; body and query keep the sequence; build
\* gives the Route that same sequence, and the chain a request walks is that
\* sequence, in registration order, followed by the validation pipeline.
C24_RegistrationOrderIsEntryOrder ==
    /\ \A c \in CallsOf({"use", "body", "query", "build"}) :
         LET e == mem.calls[c]
             h == mem.heap
         IN  /\ e.op = "use" =>
                  /\ Len(BuilderView(h, e.result).middlewares) = Len(e.was.middlewares) + 1
                  /\ SubSeq(BuilderView(h, e.result).middlewares, 1, Len(e.was.middlewares))
                       = e.was.middlewares
                  /\ BuilderView(h, e.result).middlewares[Len(e.was.middlewares) + 1] = e.arg
             /\ e.op \in {"body", "query"} =>
                  BuilderView(h, e.result).middlewares = e.was.middlewares
             /\ e.op = "build" =>
                  /\ RouteView(h, e.result).middlewares = Registered(e.this)
                  /\ Fns(RouteView(h, e.result)) = Registered(e.this) \o <<"execute">>
    /\ \A b \in DOMAIN mem.heap.builders :
         BuilderView(mem.heap, b).middlewares = Registered(b)

\* C24 witness: a Route was built from a builder on which two different
\* middleware were registered, with a schema call after the first of them.
C24_Witness ==
    \E c \in CallsOf({"build"}), u \in CallsOf({"use"}) :
        /\ RouteView(mem.heap, mem.calls[c].result).middlewares = <<"mA", "mB">>
        /\ mem.calls[c].was.bodySchema = BodySchema
        /\ mem.calls[u].was.bodySchema = BodySchema
        /\ mem.calls[u].was.middlewares = <<"mA">>
        /\ mem.calls[u].arg = "mB"

-----------------------------------------------------------------------------
(* Validation as the last link *)

\* the middleware entered before position p of the log, in the order entered
EnteredBefore(q, p) ==
    LET IsPre(e) == e.ev = "mwPre"
        pre == SelectSeq(SubSeq(q.log, 1, p - 1), IsPre)
    IN  [i \in DOMAIN pre |-> pre[i].who]

\* the positions of the failed schema parses
FailedParses(q) == {p \in At(q, {"parseBody", "parseQuery"}) : q.log[p].b = "fail"}

\* the behaviours in which a middleware awaits every next() it calls and lets
\* a fault of next() pass
AwaitsAndPasses == {"await", "finally", "twice", "throwAfter"}

\* handle rejected with the ValidationError of the failed parse at p
RejectedWithParseFailure(q, p) ==
    \E k \in At(q, {"handleSettled"}) :
        /\ k > p
        /\ q.log[k].who = "exc"
        /\ ErrorOf(q.log[k]) = ParseFailure(q.log[p])

\* C25 as claimed: no schema parse is attempted before every registered
\* middleware has been entered in registration order and has called next, and
\* the ValidationError of a failed parse unwinds through all of them, whatever
\* the middleware do.
C25_Original ==
    \A r \in ReqIds :
        LET q == rq[r] IN
        /\ \A p \in At(q, {"parseBody", "parseQuery"}) :
             /\ EnteredBefore(q, p) = q.route.middlewares
             /\ \A j \in At(q, {"mwPre"}) : q.log[j].a \notin NeverCallsNext
        /\ Finished(q) => \A p \in FailedParses(q) : RejectedWithParseFailure(q, p)

\* C25 amended: no schema parse is attempted before every registered
\* middleware has been entered, in registration order, and, unless a
\* middleware called next() more than once, has called next; a request with an
\* invalid body still runs the code before next() of all middleware; the
\* ValidationError passes the middleware it reaches in reverse registration
\* order when every middleware awaits the next() it calls, and it unwinds
\* through all of them, up to handle, with none of them running its code after
\* next(), when moreover none catches the error.
C25_ValidationIsLastLink ==
    \A r \in ReqIds :
        LET q == rq[r]
            mws == q.route.middlewares
        IN
        /\ \A p \in At(q, {"parseBody", "parseQuery"}) :
             /\ EnteredBefore(q, p) = mws
             /\ (\A j \in At(q, {"mwPre"}) : q.log[j].a # "twice")
                => \A j \in At(q, {"mwPre"}) : q.log[j].a \notin NeverCallsNext
        /\ q.req.body = "b_bad" /\ q.route.bodySchema = BodySchema /\ At(q, {"parseBody"}) # {}
             => Cardinality(At(q, {"mwPre"})) = Len(mws)
        /\ \A p \in FailedParses(q) :
             /\ (\A j \in At(q, {"mwPre"}) : q.log[j].a # "noawait")
                => \A j, k \in At(q, {"mwCleanup", "mwCaught"}) :
                      p < j /\ j < k => MwPos(q, q.log[j].who) > MwPos(q, q.log[k].who)
             /\ (\A j \in At(q, {"mwPre"}) : q.log[j].a \in AwaitsAndPasses)
                => \A k \in At(q, {"mwPost"}) : k < p
             /\ Finished(q) /\ (\A j \in At(q, {"mwPre"}) : q.log[j].a \in AwaitsAndPasses) =>
                  /\ RejectedWithParseFailure(q, p)
                  /\ \A i \in DOMAIN mws :
                       (\E j \in At(q, {"mwPre"}) : q.log[j].who = mws[i] /\ q.log[j].a = "finally")
                       => \E k \in At(q, {"mwCleanup"}) :
                            k > p /\ q.log[k].who = mws[i] /\ q.log[k].b = "exc"

\* C25 witness: a request with an invalid body on a Route with two middleware
\* that wrap next() in try/finally: both were entered before the parse, and the
\* second one's cleanup ran before the first one's, before handle rejected.
C25_Witness ==
    \E p \in FailedParses(rq[1]), j, k \in At(rq[1], {"mwCleanup"}) :
        /\ Finished(rq[1])
        /\ rq[1].log[p].ev = "parseBody"
        /\ Len(rq[1].route.middlewares) = 2
        /\ p < j /\ j < k
        /\ rq[1].log[j].who = rq[1].route.middlewares[2]
        /\ rq[1].log[k].who = rq[1].route.middlewares[1]
        /\ RejectedWithParseFailure(rq[1], p)

-----------------------------------------------------------------------------
(* Where a fault becomes a response *)

\* handle rejected, after position f of the log, with the fault raised there
LeftHandleAsRejection(q, f) ==
    \E k \in At(q, {"handleSettled"}) :
        k > f /\ q.log[k].who = "exc" /\ ErrorOf(q.log[k]) = FaultAt(q, f)

\* the write at position w of the log is the response of the fallback handler
\* called at w - 1
WrittenByFallback(q, w) ==
    /\ w > 1
    /\ q.log[w - 1].ev \in {"onError", "onNotAllowed"}
    /\ q.log[w - 1].who = q.log[w].who

\* C26 as claimed: every fault raised inside the chain, a ValidationError
\* included, leaves Route.handle as a rejection, whatever the middleware do.
C26_Original ==
    \A r \in ReqIds :
        LET q == rq[r] IN
        Finished(q) => \A f \in FaultsRaised(q) : LeftHandleAsRejection(q, f)

\* C26 amended: Route.handle converts nothing into a response on failure: it
\* writes nothing and every fault that reaches it, a ValidationError included,
\* leaves it as a rejection, which the router's dispatch step hands to onError;
\* a fault raised inside the chain reaches handle when no middleware catches it
\* and every middleware awaits next(); within the core a fault is turned into
\* a response only by onError called from the dispatch step.
C26_HandleConvertsNothing ==
    \A r \in ReqIds :
        LET q == rq[r] IN
        q.phase = "running" =>
            /\ \A w \in At(q, {"write"}) :
                 /\ q.log[w].who # "handle"
                 /\ q.log[w].who # "execute" =>
                      /\ WrittenByFallback(q, w)
                      /\ q.log[w].who \in {router.onError, router.onNotAllowed}
                 /\ q.log[w].who = "execute" =>
                      \E h \in At(q, {"handlerDid"}) :
                          h < w /\ q.log[h].a # "throw" /\ q.log[w].b = q.log[h].b
            /\ \A k \in At(q, {"handleSettled"}) :
                 /\ q.log[k].who = "exc" =>
                      \E f \in FaultsRaised(q) : f < k /\ ErrorOf(q.log[k]) = FaultAt(q, f)
                 /\ q.log[k].who = "exc" /\ Finished(q) =>
                      \E e \in At(q, {"onError"}) :
                          e > k /\ ErrorOf(q.log[e]) = ErrorOf(q.log[k])
                 /\ q.log[k].who = "ok" => At(q, {"onError"}) = {}
            /\ Finished(q)
               /\ (\A j \in At(q, {"mwPre"}) : q.log[j].a # "noawait")
               /\ At(q, {"mwCaught"}) = {}
               => \A f \in FaultsRaised(q) : LeftHandleAsRejection(q, f)

\* C26 witness: a request with an invalid query passed a middleware that
\* awaits next(); handle rejected with the ValidationError, and the only
\* response of the request is the 400 the default onError wrote afterwards.
C26_Witness ==
    \E f \in FailedParses(rq[1]), w \in At(rq[1], {"write"}) :
        /\ Finished(rq[1])
        /\ rq[1].log[f].ev = "parseQuery"
        /\ At(rq[1], {"mwPre"}) # {}
        /\ LeftHandleAsRejection(rq[1], f)
        /\ rq[1].log[w].who = "defaultOnError"
        /\ rq[1].log[w].n = 400
        /\ rq[1].res.writes = 1

-----------------------------------------------------------------------------
(* The handler's fault on its way out *)

\* the positions at which onError was called with the handler's fault
OnErrorWithHandlerFault(q) == {e \in At(q, {"onError"}) : ErrorOf(q.log[e]) = HandlerFault}

\* C27: when the handler throws, onError is invoked with its fault only after
\* the throw and, the middleware awaiting the next() they call, only after the
\* fault has unwound through them in reverse registration order: the cleanup
\* code of every try/finally around next() has run before onError, those
\* still open at the throw last-registered first, no middleware is still
\* active and none ran its code after next(); a middleware that catches the
\* fault and does not rethrow it keeps it from onError.
C27_HandlerFaultUnwindsBeforeOnError ==
    \A r \in ReqIds :
        LET q == rq[r]
            allAwait == \A j \in At(q, {"mwPre"}) : q.log[j].a # "noawait"
        IN
        q.phase = "running" =>
            /\ \A e \in OnErrorWithHandlerFault(q) :
                 \E h \in At(q, {"handlerDid"}) :
                    /\ h < e /\ q.log[h].a = "throw"
                    /\ \A j \in At(q, {"mwPre"}) : j < h
                    /\ allAwait =>
                         /\ \A j \in At(q, {"mwPre"}) :
                              q.log[j].a = "finally" =>
                                 \E c \in At(q, {"mwCleanup"}) :
                                     c < e /\ q.log[c].who = q.log[j].who
                         /\ \A c \in At(q, {"mwCleanup"}) : c > h => q.log[c].b = "exc"
                         /\ \A c, d \in At(q, {"mwCleanup"}) :
                              h < c /\ c < d =>
                                 MwPos(q, q.log[c].who) > MwPos(q, q.log[d].who)
                         /\ \A p \in At(q, {"mwPost", "mwCleanup"}) : p < e
                         /\ \A p \in At(q, {"mwPost"}) : p < h
                         /\ \A f \in LiveFrames(q) : f.fn # "mw"
            /\ \A k \in At(q, {"mwCaught"}) :
                 ErrorOf(q.log[k]) = HandlerFault =>
                    /\ OnErrorWithHandlerFault(q) = {}
                    /\ allAwait /\ (\A j \in At(q, {"mwPre"}) : q.log[j].a # "throwAfter")
                       => At(q, {"onError"}) = {}

\* C27 witness: the handler threw behind two middleware that wrap next() in
\* try/finally; the second one's cleanup ran, then the first one's, and then
\* onError received the handler's fault.
C27_Witness ==
    \E e \in OnErrorWithHandlerFault(rq[1]), c, d \in At(rq[1], {"mwCleanup"}) :
        /\ Len(rq[1].route.middlewares) = 2
        /\ c < d /\ d < e
        /\ rq[1].log[c].who = rq[1].route.middlewares[2]
        /\ rq[1].log[d].who = rq[1].route.middlewares[1]
        /\ rq[1].log[c].b = "exc" /\ rq[1].log[d].b = "exc"
        /\ HandlerThrew(rq[1])

-----------------------------------------------------------------------------
(* Termination *)

\* every middleware entered so far awaits the next() it calls
AwaitsWhatItCalls == \A r \in ReqIds : \A j \in At(rq[r], {"mwPre"}) : rq[r].log[j].a # "noawait"

\* the three ways a call ends
NotAllowedEnd(q) == At(q, {"onNotAllowed"}) # {}
CompletedEnd(q) ==
    /\ HandleSettled(q, "ok")
    /\ \A f \in FaultsRaised(q) : Received(q, f, {"mwCaught"})
ErrorEnd(q) == At(q, {"onError"}) # {}

\* the call has ended, its promise settled, in exactly one of the three ways
Terminal(q) ==
    /\ Finished(q)
    /\ q.outcome # "none"
    /\ Cardinality({i \in 1..3 : <<NotAllowedEnd(q), CompletedEnd(q), ErrorEnd(q)>>[i]}) = 1

\* C28: when every schema parse, every middleware and the handler settle and
\* each middleware awaits the next() it calls, every call of the router
\* eventually reaches exactly one terminal state: not allowed, chain completed
\* without fault, or error handler invoked.
C28_EveryCallTerminates ==
    []AwaitsWhatItCalls => \A r \in ReqIds : (rq[r].phase = "running") ~> Terminal(rq[r])

\* C28 witness: a call that passed two middleware, each awaiting next(), ended
\* in the error state: the handler threw and onError was invoked, and the call
\* is in neither of the other two terminal states.
C28_Witness ==
    /\ Terminal(rq[1])
    /\ ErrorEnd(rq[1])
    /\ HandlerThrew(rq[1])
    /\ Cardinality(At(rq[1], {"mwPre"})) = 2
    /\ AwaitsWhatItCalls

-----------------------------------------------------------------------------
(* The responses the core writes *)

\* the response writes of the call made by one of the writers
WritesBy(q, writers) == {w \in At(q, {"write"}) : q.log[w].who \in writers}

\* the behaviours in which a fault or a response can come after the chain
\* behind the middleware has answered: a next() left un-awaited, a throw after
\* next() has resolved
LeavesChainBehind == {"noawait", "throwAfter"}

\* C29 as claimed: for every request the core writes a response at most once,
\* whatever the middleware do.
C29_Original ==
    \A r \in ReqIds : Cardinality(At(rq[r], {"write"})) <= 1

\* C29 amended: for every request the core writes the handler's returned value
\* at most once, the onNotAllowed response at most once and the onError
\* response at most once; the onNotAllowed response excludes both others, and
\* the handler's result and the onError response exclude each other when no
\* middleware throws after its next() has resolved and none leaves next()
\* un-awaited; otherwise both can be written in one request.
C29_CoreWritesOncePerSource ==
    \A r \in ReqIds :
        LET q == rq[r] IN
        q.phase = "running" =>
            /\ At(q, {"write"}) = WritesBy(q, {"execute", router.onError, router.onNotAllowed})
            /\ Cardinality(WritesBy(q, {"execute"})) <= 1
            /\ Cardinality(WritesBy(q, {router.onError})) <= 1
            /\ Cardinality(WritesBy(q, {router.onNotAllowed})) <= 1
            /\ WritesBy(q, {router.onNotAllowed}) # {} => Cardinality(At(q, {"write"})) = 1
            /\ q.res.writes = Cardinality(At(q, {"write"}))
                              + Cardinality({h \in At(q, {"handlerDid"}) : q.log[h].a = "send"})
            /\ (\A j \in At(q, {"mwPre"}) : q.log[j].a \notin LeavesChainBehind)
               => Cardinality(At(q, {"write"})) <= 1

\* C29 witness: the handler's value was written, a middleware that awaits
\* next() was passed, and the request ended with that single response.
C29_Witness ==
    /\ Finished(rq[1])
    /\ WritesBy(rq[1], {"execute"}) # {}
    /\ \E j \in At(rq[1], {"mwPre"}) : rq[1].log[j].a = "catch"
    /\ Cardinality(At(rq[1], {"write"})) = 1
    /\ router.onError = "customOnError"

-----------------------------------------------------------------------------
(* The promise of a router call *)

\* the promise of the call has settled
Settled(q) == q.phase = "running" /\ q.outcome # "none"

\* C30 as claimed: the promise of a router call rejects only with a fault of
\* onNotAllowed or onError, onError is invoked at most once, and every fault
\* raised inside Route.handle, by a middleware, a parse or the handler, has
\* onError run before the call settles, whatever the middleware do.
C30_Original ==
    \A r \in ReqIds :
        LET q == rq[r] IN
        Settled(q) =>
            /\ q.outcome = "rejected" => q.rejection \in {OnErrorFault, OnNotAllowedFault}
            /\ Cardinality(At(q, {"onError"})) <= 1
            /\ \A f \in FaultsRaised(q) : Received(q, f, {"onError"})

\* C30 amended: the promise of a router call rejects only when onNotAllowed or
\* onError itself throws, and then with that fault: it is not caught again and
\* onError is invoked at most once per call, never after onNotAllowed; every
\* fault Route.handle rejects with has onError run with it before the call
\* settles, and the call then resolves unless onError throws; a call whose
\* handle resolved resolves without onError.
C30_RejectsOnlyWithFallbackFault ==
    \A r \in ReqIds :
        LET q == rq[r] IN
        /\ q.phase = "running" => Cardinality(At(q, {"onError"})) <= 1
        /\ Settled(q) =>
            /\ q.outcome = "rejected" => q.rejection \in {OnErrorFault, OnNotAllowedFault}
            /\ q.outcome = "rejected" /\ q.rejection = OnNotAllowedFault =>
                 /\ router.onNotAllowed = "customOnNotAllowed"
                 /\ \E k \in At(q, {"onNotAllowed"}) : q.log[k].b = "throw"
                 /\ At(q, {"onError", "dispatch", "write"}) = {}
            /\ q.outcome = "rejected" /\ q.rejection = OnErrorFault =>
                 /\ router.onError = "customOnError"
                 /\ Cardinality(At(q, {"onError"})) = 1
                 /\ WritesBy(q, {router.onError}) = {}
                 /\ HandleSettled(q, "exc")
            /\ \A k \in At(q, {"handleSettled"}) :
                 /\ q.log[k].who = "exc" =>
                      /\ \E e \in At(q, {"onError"}) :
                            e > k /\ ErrorOf(q.log[e]) = ErrorOf(q.log[k])
                      /\ q.outcome = "resolved" <=> WritesBy(q, {router.onError}) # {}
                      /\ router.onError = "defaultOnError" => q.outcome = "resolved"
                 /\ q.log[k].who = "ok" => q.outcome = "resolved" /\ At(q, {"onError"}) = {}

\* C30 witness: the handler threw, the custom onError was invoked with the
\* handler's fault and threw itself: the call's promise is rejected with the
\* fault of onError, which was invoked once.
C30_Witness ==
    /\ Settled(rq[1])
    /\ rq[1].outcome = "rejected"
    /\ rq[1].rejection = OnErrorFault
    /\ HandlerThrew(rq[1])
    /\ OnErrorWithHandlerFault(rq[1]) # {}
    /\ Cardinality(At(rq[1], {"onError"})) = 1

=============================================================================
